---- MODULE Spec2Model ----
(***************************************************************************)
(* GiST vacuum (gistbulkdelete / gistvacuumcleanup / gistvacuumscan /      *)
(* gistvacuumpage) and the BlockSet radix tree it records pages in.        *)
(*                                                                         *)
(* A BlockNumber is an unsigned 32-bit value.  It is kept as two 16-bit    *)
(* limbs <<hi, lo>> (value hi * 65536 + lo), so that all 32 bits,          *)
(* InvalidBlockNumber = 0xFFFFFFFF included, are represented exactly.      *)
(***************************************************************************)
EXTENDS Integers, Sequences, FiniteSets, TLC

(* ------------------------------------------------------------------ *)
(* 32-bit unsigned arithmetic on limbs                                 *)
(* ------------------------------------------------------------------ *)
RadixFanout == 256

Limb == RadixFanout * RadixFanout

BitmapBytes == RadixFanout \div 8

U32(n) == <<n \div Limb, n % Limb>>

U32Lt(a, b) == a[1] < b[1] \/ (a[1] = b[1] /\ a[2] < b[2])

U32Le(a, b) == a = b \/ U32Lt(a, b)

(* x + 1 modulo 2^32 *)
U32Inc(a) ==
    IF a[2] + 1 < Limb THEN <<a[1], a[2] + 1>>
    ELSE IF a[1] + 1 < Limb THEN <<a[1] + 1, 0>>
    ELSE <<0, 0>>

(* x - 1 modulo 2^32 *)
U32Dec(a) ==
    IF a[2] > 0 THEN <<a[1], a[2] - 1>>
    ELSE IF a[1] > 0 THEN <<a[1] - 1, Limb - 1>>
    ELSE <<Limb - 1, Limb - 1>>

(* blkno % 256 and blkno / 256 *)
U32Mod256(a) == a[2] % RadixFanout

U32Div256(a) == <<a[1] \div RadixFanout,
                  (a[1] % RadixFanout) * RadixFanout + (a[2] \div RadixFanout)>>

InvalidBlockNumber == <<Limb - 1, Limb - 1>>

Pow2(n) == CASE n = 0 -> 1 [] n = 1 -> 2 [] n = 2 -> 4 [] n = 3 -> 8
             [] n = 4 -> 16 [] n = 5 -> 32 [] n = 6 -> 64 [] n = 7 -> 128
             [] OTHER -> 256

(* (byte & mask) != 0 for a one-bit mask *)
BitSet(byte, mask) == (byte \div mask) % 2 = 1

(* byte | mask for a one-bit mask *)
BitOr(byte, mask) == IF BitSet(byte, mask) THEN byte ELSE byte + mask

(* ------------------------------------------------------------------ *)
(* BlockSet: 4-level radix tree                                        *)
(*   a handle is NULL or <<root>>; an inner node is the function from  *)
(*   its non-NULL slots to the child nodes; a level-4 node is the      *)
(*   32-byte bitmap.                                                   *)
(* ------------------------------------------------------------------ *)
NULL == <<>>

EmptyNode == [i \in {} |-> 0]

ZeroBitmap == [b \in 0 .. BitmapBytes - 1 |-> 0]

BLOCKSET_SPLIT_BLKNO(blkno) ==
    LET i4 == U32Mod256(blkno)
        b1 == U32Div256(blkno)
        i3 == U32Mod256(b1)
        b2 == U32Div256(b1)
        i2 == U32Mod256(b2)
        b3 == U32Div256(b2)
        i1 == b3[1] * Limb + b3[2]
    IN  [i1 |-> i1, i2 |-> i2, i3 |-> i3, i4 |-> i4,
         byte_no |-> i4 \div 8, byte_mask |-> Pow2(i4 % 8)]

Slot(node, i) == IF i \in DOMAIN node THEN node[i] ELSE EmptyNode

SlotIsNull(node, i) == i \notin DOMAIN node

PutSlot(node, i, child) ==
    [j \in (DOMAIN node) \cup {i} |-> IF j = i THEN child ELSE node[j]]

(* faulty variant of blockset_set: the byte is overwritten by the mask, not or-ed *)
blockset_set_overwrite(bs, blkno) ==
    LET s   == BLOCKSET_SPLIT_BLKNO(blkno)
        root == IF bs = NULL THEN EmptyNode ELSE bs[1]
        bs2 == Slot(root, s.i1)
        bs3 == Slot(bs2, s.i2)
        bs4 == IF SlotIsNull(bs3, s.i3) THEN ZeroBitmap ELSE bs3[s.i3]
        n4  == [bs4 EXCEPT ![s.byte_no] = s.byte_mask]
    IN  <<PutSlot(root, s.i1, PutSlot(bs2, s.i2, PutSlot(bs3, s.i3, n4)))>>

blockset_set(bs, blkno) ==
    LET s   == BLOCKSET_SPLIT_BLKNO(blkno)
        root == IF bs = NULL THEN EmptyNode ELSE bs[1]
        bs2 == Slot(root, s.i1)
        bs3 == Slot(bs2, s.i2)
        bs4 == IF SlotIsNull(bs3, s.i3) THEN ZeroBitmap ELSE bs3[s.i3]
        n4  == [bs4 EXCEPT ![s.byte_no] = BitOr(bs4[s.byte_no], s.byte_mask)]
    IN  <<PutSlot(root, s.i1, PutSlot(bs2, s.i2, PutSlot(bs3, s.i3, n4)))>>

blockset_get(blkno, bs) ==
    LET s == BLOCKSET_SPLIT_BLKNO(blkno)
    IN  IF bs = NULL THEN FALSE
        ELSE IF SlotIsNull(bs[1], s.i1) THEN FALSE
        ELSE IF SlotIsNull(bs[1][s.i1], s.i2) THEN FALSE
        ELSE IF SlotIsNull(bs[1][s.i1][s.i2], s.i3) THEN FALSE
        ELSE BitSet(bs[1][s.i1][s.i2][s.i3][s.byte_no], s.byte_mask)

(* ------------------------------------------------------------------ *)
(* blockset_next: the nested loops, with the loop variables carried    *)
(* from one level to the next exactly as the C code carries them       *)
(* (a `continue` on a NULL slot leaves the inner indexes untouched).   *)
(* A run of NULL slots is stepped over in one go.                      *)
(* ------------------------------------------------------------------ *)
MinOf(S) == CHOOSE j \in S : \A k \in S : j <= k

Log2(mask) == CASE mask = 1 -> 0 [] mask = 2 -> 1 [] mask = 4 -> 2 [] mask = 8 -> 3
                [] mask = 16 -> 4 [] mask = 32 -> 5 [] mask = 64 -> 6 [] OTHER -> 7

NotFound(i3, byte_no, byte_mask) ==
    [found |-> FALSE, i2 |-> 0, i3 |-> i3, i4 |-> 0,
     byte_no |-> byte_no, byte_mask |-> byte_mask]

(* while (byte_mask < maskLimit) { if ((byte_mask & byte) == byte_mask) return; byte_mask <<= 1; } *)
(* the result is the mask found, or 0 when the loop ends without a hit          *)
RECURSIVE ScanBits(_, _, _)
ScanBits(byte, byte_mask, maskLimit) ==
    IF ~(byte_mask < maskLimit) THEN 0
    ELSE IF BitSet(byte, byte_mask) THEN byte_mask
    ELSE ScanBits(byte, byte_mask * 2, maskLimit)

RECURSIVE ScanBytes(_, _, _, _)
ScanBytes(bs4, byte_no, byte_mask, maskLimit) ==
    IF ~(byte_no < BitmapBytes) THEN NotFound(0, byte_no, byte_mask)
    ELSE IF bs4[byte_no] = 0 THEN ScanBytes(bs4, byte_no + 1, byte_mask, maskLimit)
    ELSE LET m == ScanBits(bs4[byte_no], byte_mask, maskLimit)
         IN  IF m # 0
             THEN [found |-> TRUE, i2 |-> 0, i3 |-> 0, i4 |-> byte_no * 8 + Log2(m),
                   byte_no |-> byte_no, byte_mask |-> 0]
             ELSE ScanBytes(bs4, byte_no + 1, 1, maskLimit)

RECURSIVE ScanLevel3(_, _, _, _, _)
ScanLevel3(bs3, i3, byte_no, byte_mask, maskLimit) ==
    LET S == {j \in DOMAIN bs3 : j >= i3}
    IN  IF S = {} THEN NotFound(i3, byte_no, byte_mask)
        ELSE LET j == MinOf(S)
                 r == ScanBytes(bs3[j], byte_no, byte_mask, maskLimit)
             IN  IF r.found THEN [r EXCEPT !.i3 = j]
                 ELSE ScanLevel3(bs3, j + 1, 0, r.byte_mask, maskLimit)

RECURSIVE ScanLevel2(_, _, _, _, _, _)
ScanLevel2(bs2, i2, i3, byte_no, byte_mask, maskLimit) ==
    LET S == {j \in DOMAIN bs2 : j >= i2}
    IN  IF S = {} THEN NotFound(i3, byte_no, byte_mask)
        ELSE LET j == MinOf(S)
                 r == ScanLevel3(bs2[j], i3, byte_no, byte_mask, maskLimit)
             IN  IF r.found THEN [r EXCEPT !.i2 = j]
                 ELSE ScanLevel2(bs2, j + 1, 0, r.byte_no, r.byte_mask, maskLimit)

RECURSIVE ScanLevel1(_, _, _, _, _, _, _)
ScanLevel1(root, i1, i2, i3, byte_no, byte_mask, maskLimit) ==
    LET S == {j \in DOMAIN root : j >= i1}
    IN  IF S = {} THEN InvalidBlockNumber
        ELSE LET j == MinOf(S)
                 r == ScanLevel2(root[j], i2, i3, byte_no, byte_mask, maskLimit)
             IN  IF r.found
                 THEN <<j * RadixFanout + r.i2, r.i3 * RadixFanout + r.i4>>
                 ELSE ScanLevel1(root, j + 1, 0, r.i3, r.byte_no, r.byte_mask, maskLimit)

BlockSetNextFrom(bs, blkno, maskLimit) ==
    LET start == IF blkno = InvalidBlockNumber THEN U32(0) ELSE U32Inc(blkno)
        s == BLOCKSET_SPLIT_BLKNO(start)
    IN  IF bs = NULL THEN InvalidBlockNumber
        ELSE ScanLevel1(bs[1], s.i1, s.i2, s.i3, s.byte_no, s.byte_mask, maskLimit)

(* lib/blockset.c: while (byte_mask < 256) *)
LibMaskLimit == 256

(* faulty variant of blockset_next: the highest bit of a byte is never tested *)
blockset_next_low_bits(bs, blkno) == BlockSetNextFrom(bs, blkno, LibMaskLimit \div 2)

blockset_next(bs, blkno) == BlockSetNextFrom(bs, blkno, LibMaskLimit)

(* gistvacuum.c's own copy: while (byte_mask <= 0x70) *)
GistMaskLast == 112

gist_blockset_next(bs, blkno) == BlockSetNextFrom(bs, blkno, GistMaskLast + 1)

(* ------------------------------------------------------------------ *)
(* blockset_free: the nested loops, with i2 and i3 carried from one    *)
(* node to the next as the C code carries them (they are initialised   *)
(* once, by BLOCKSET_SPLIT_BLKNO on block 0, and never reset).         *)
(* A radix node is named by its path from the root; the result is the  *)
(* set of nodes handed to pfree.                                       *)
(* ------------------------------------------------------------------ *)
AllocatedNodes(bs) ==
    IF bs = NULL THEN {}
    ELSE {<<>>}
         \cup {<<a>> : a \in DOMAIN bs[1]}
         \cup UNION {{<<a, b>> : b \in DOMAIN bs[1][a]} : a \in DOMAIN bs[1]}
         \cup UNION {UNION {{<<a, b, c>> : c \in DOMAIN bs[1][a][b]}
                            : b \in DOMAIN bs[1][a]} : a \in DOMAIN bs[1]}

(* for (; i3 < 256; i3++) if (bs4) pfree(bs4); *)
FreeLevel3(bs3, i1, i2, i3) == {<<i1, i2, c>> : c \in {j \in DOMAIN bs3 : j >= i3}}

RECURSIVE FreeLevel2(_, _, _, _)
FreeLevel2(bs2, i1, i2, i3) ==
    LET S == {j \in DOMAIN bs2 : j >= i2}
    IN  IF S = {} THEN [freed |-> {}, i3 |-> i3]
        ELSE LET j == MinOf(S)
                 rest == FreeLevel2(bs2, i1, j + 1, RadixFanout)
             IN  [freed |-> FreeLevel3(bs2[j], i1, j, i3) \cup {<<i1, j>>} \cup rest.freed,
                  i3 |-> RadixFanout]

RECURSIVE FreeLevel1(_, _, _, _)
FreeLevel1(root, i1, i2, i3) ==
    LET S == {j \in DOMAIN root : j >= i1}
    IN  IF S = {} THEN {}
        ELSE LET j == MinOf(S)
                 r == FreeLevel2(root[j], j, i2, i3)
             IN  r.freed \cup {<<j>>} \cup FreeLevel1(root, j + 1, RadixFanout, r.i3)

blockset_free(bs) ==
    LET s == BLOCKSET_SPLIT_BLKNO(U32(0))
    IN  IF bs = NULL THEN {}
        ELSE FreeLevel1(bs[1], s.i1, s.i2, s.i3) \cup {<<>>}

(* ================================================================== *)
(* The index: pages, relation length, free-space map, WAL position,    *)
(* transaction-id oracle                                               *)
(* ================================================================== *)
MaxBlocks == 8

MaxTuples == 2

MaxSplits == 2

MaxInserts == 1

MaxScans == 1

MaxXid == 2

MaxRescans == 2

FirstNormalTransactionId == 3

GIST_ROOT_BLKNO == U32(0)

FirstOffsetNumber == 1

InvalidOffsetNumber == 0

InvalidTransactionId == 0

Blocks == {U32(n) : n \in 0 .. MaxBlocks - 1}

VARIABLES
    page,        \* block number -> page contents
    numPages,    \* RelationGetNumberOfBlocks
    fsm,         \* blocks recorded by RecordFreeIndexPage
    fsmUpper,    \* blocks covered by the last IndexFreeSpaceMapVacuum
    lsn,         \* current WAL insert position, or the fake-LSN counter
    relNeedsWAL, \* RelationNeedsWAL(rel)
    nextXid,     \* ReadNewTransactionId
    running,     \* ids of the transactions in progress
    budget       \* activity still allowed: [splits, inserts, scans, xids]

VARIABLES
    inserterLocked \* pages inserting sessions hold locked while they ask for the parent

VARIABLES
    pc,          \* where the vacuum backend is
    vstate,      \* GistVacState
    stats,       \* IndexBulkDeleteResult, or NoStats
    info,        \* the IndexVacuumInfo fields read by cleanup
    loc,         \* locals of gistvacuumscan / gistvacuumpage
    locked,      \* pages the vacuum backend holds exclusive-locked
    hist         \* history of the current scan (used by the properties only)

VARIABLES
    tbs,         \* a BlockSet built by blockset_set calls
    tmembers,    \* the block numbers passed to those calls
    tcalls,      \* number of calls made
    tnext,       \* the last blockset_next call: its argument and its result
    tenum,       \* the enumeration loop x = blockset_next(bs, x) from InvalidBlockNumber
    tfree        \* the nodes allocated and the nodes released when blockset_free ran

diskVars == <<page, numPages, fsm, fsmUpper, lsn, relNeedsWAL, nextXid, running, budget>>

vacVars == <<pc, vstate, stats, info, loc, locked, hist>>

bsVars == <<tbs, tmembers, tcalls, tnext, tenum, tfree>>

vars == <<page, numPages, fsm, fsmUpper, lsn, relNeedsWAL, nextXid, running, budget,
          pc, vstate, stats, info, loc, locked, hist, tbs, tmembers, tcalls,
          tnext, tenum, tfree, inserterLocked>>

(* ------------------------------------------------------------------ *)
(* Pages                                                               *)
(* ------------------------------------------------------------------ *)
NewPage ==
    [kind |-> "new", deleted |-> FALSE, tuples |-> <<>>, downlinks |-> <<>>,
     rightlink |-> InvalidBlockNumber, nsn |-> 0, followRight |-> FALSE,
     deleteXid |-> InvalidTransactionId,
     invalid |-> {}]     \* children whose downlink is marked invalid

LeafPage(tuples, rightlink) ==
    [NewPage EXCEPT !.kind = "leaf", !.tuples = tuples, !.rightlink = rightlink]

InternalPage(downlinks, rightlink) ==
    [NewPage EXCEPT !.kind = "internal", !.downlinks = downlinks,
                    !.rightlink = rightlink]

DeletedLeaf(xid) ==
    [NewPage EXCEPT !.kind = "leaf", !.deleted = TRUE, !.deleteXid = xid]

PageIsNew(p) == p.kind = "new"

GistPageIsDeleted(p) == p.deleted

GistPageIsLeaf(p) == p.kind = "leaf"

GistFollowRight(p) == p.followRight

GistPageGetNSN(p) == p.nsn

(* number of line pointers on the page *)
PageGetMaxOffsetNumber(p) ==
    IF p.kind = "leaf" THEN Len(p.tuples) ELSE Len(p.downlinks)

(* remove the item at offset off; later items move down by one *)
PageIndexTupleDelete(items, off) ==
    [k \in 1 .. Len(items) - 1 |-> IF k < off THEN items[k] ELSE items[k + 1]]

RECURSIVE PageIndexMultiDelete(_, _)
PageIndexMultiDelete(items, offs) ==
    IF offs = <<>> THEN items
    ELSE PageIndexMultiDelete(PageIndexTupleDelete(items, offs[Len(offs)]),
                              SubSeq(offs, 1, Len(offs) - 1))

(* ------------------------------------------------------------------ *)
(* Tree navigation                                                     *)
(* ------------------------------------------------------------------ *)
Range(seq) == {seq[k] : k \in 1 .. Len(seq)}

Existing == {b \in Blocks : U32Lt(b, numPages)}

IsLive(p) == p.kind # "new" /\ ~p.deleted

Parents(b) ==
    {q \in Existing : page[q].kind = "internal" /\ IsLive(page[q])
                      /\ b \in Range(page[q].downlinks)}

OffsetOf(seq, e) == CHOOSE k \in 1 .. Len(seq) : seq[k] = e

InsertAfter(seq, k, e) ==
    [j \in 1 .. Len(seq) + 1 |->
        IF j <= k THEN seq[j] ELSE IF j = k + 1 THEN e ELSE seq[j - 1]]

(* the deletion callback: is the heap row this entry points to dead? *)
callback(tuple) == tuple = "dead"

InScan == pc \notin {"idle", "clamp"}

(* has the ascending loop of phase 1 still to make its visit of block b? *)
NotYetReached(b) ==
    /\ pc \in {"length", "page"}
    /\ \/ U32Lt(loc.blkno, b)
       \/ b = loc.blkno /\ (pc = "length" \/ loc.cur = loc.blkno)

(* ------------------------------------------------------------------ *)
(* History of the current scan                                         *)
(* ------------------------------------------------------------------ *)
(* the counts the latest gistvacuumcleanup call returned, what it had counted
   before the clamp and whether it was given statistics; invalid once the
   index has been written or an entry point has returned without reaching
   the clamp since *)
NoCleanup ==
    [valid |-> FALSE, given |-> FALSE, counted |-> 0, num_pages |-> U32(0), pages_free |-> U32(0),
     pages_deleted |-> U32(0), num_index_tuples |-> 0]

NoRecord == [kind |-> "none", blocks |-> {}, lsn |-> 0]

NoHist ==
    [deleted |-> {},       \* leaves marked deleted by phase 2
     unlinked |-> {},      \* children whose downlink phase 2 removed
     gained |-> {},        \* recorded-empty leaves that later got an insert
     splitSince |-> {},    \* pages split (left half) since the scan began
     rights |-> {},        \* right siblings created since the scan began
     owed |-> {},          \* right siblings of leaves phase 1 had not reached
     visits |-> [b \in Blocks |-> 0],  \* phase-1 visits since creation / scan start
     readXid |-> [b \in Blocks |-> 0], \* oracle value when the horizon was read
     unlinkXid |-> [b \in Blocks |-> 0], \* oracle value when the leaf was unlinked
     parentOf |-> [b \in Blocks |-> InvalidBlockNumber], \* page it was retired from
     recycledEarly |-> {}, \* deleted pages reported free with a transaction still before the horizon
     chased |-> {},        \* pages phase 1 visited by following a right-link
     examined |-> {},      \* internal pages phase 2 locked and examined
     relocked |-> {},      \* children phase 2 locked for re-validation
     top |-> <<>>,         \* blocks phase 1 visited as top-level block, in order
     regrown |-> FALSE,    \* a later length check found blocks added meanwhile
     foundFree |-> {},     \* pages phase 1 found new or deleted
     lastCleanup |-> NoCleanup, \* what the previous gistvacuumcleanup call returned
     cleanupGiven |-> FALSE,    \* the running gistvacuumcleanup call was given statistics
     cleanupSameInfo |-> FALSE, \* ... and the info the previous call was given
     logged |-> 0,         \* LOG messages about invalid tuples the scan has emitted
     walCount |-> 0,       \* WAL records the scan has appended
     lastRec |-> NoRecord, \* the last of them
     stamped |-> [b \in Blocks |-> 0], \* the LSN the scan last set on the page
     finished |-> "none"]  \* the entry point whose scan has completed

(* gistGetFakeLSN(rel): the value the placeholder counter hands out; the
   counter is advanced past it *)
gistGetFakeLSN == lsn

(* the position of the LSN source after a record has been appended or a
   placeholder has been handed out *)
NextRecPtr == lsn + 1

(* if (RelationNeedsWAL(rel)) recptr = gistXLog...(); else recptr =
   gistGetFakeLSN(rel): the LSN the changed pages are set to *)
RecPtr == IF relNeedsWAL THEN NextRecPtr ELSE gistGetFakeLSN

(* if (RelationNeedsWAL(rel)) vstate.startNSN = GetInsertRecPtr(); else
   vstate.startNSN = gistGetFakeLSN(rel); *)
StartNSN == IF relNeedsWAL THEN lsn ELSE gistGetFakeLSN

(* the record appended when the relation is WAL-logged, and PageSetLSN on the
   pages the change covers *)
LogAndStamp(h, kind, blocks) ==
    [h EXCEPT
       !.walCount = IF relNeedsWAL THEN @ + 1 ELSE @,
       !.lastRec = IF relNeedsWAL
                   THEN [kind |-> kind, blocks |-> blocks, lsn |-> NextRecPtr]
                   ELSE @,
       !.stamped = [b \in Blocks |-> IF b \in blocks THEN RecPtr ELSE @[b]]]

(* faulty variant of LeafCleaned: one record for each entry removed *)
LeafCleanedPerEntry(h, blkno, ntodelete) ==
    IF ntodelete > 0
    THEN [LogAndStamp(h, "update", {blkno}) EXCEPT
            !.walCount = IF relNeedsWAL THEN h.walCount + ntodelete ELSE @]
    ELSE h

(* if (ntodelete > 0) { ... gistXLogUpdate / gistGetFakeLSN; PageSetLSN } *)
LeafCleaned(h, blkno, ntodelete) ==
    IF ntodelete > 0 THEN LogAndStamp(h, "update", {blkno}) ELSE h

(* another session has written to the index *)
Wrote(h) == [h EXCEPT !.lastCleanup = NoCleanup]

(* ------------------------------------------------------------------ *)
(* Concurrent sessions (inserts, page splits, transactions)            *)
(* ------------------------------------------------------------------ *)
(* LockBuffer(buffer, GIST_EXCLUSIVE) has returned: no other session holds the
   page *)
LockGranted(b) == b \notin inserterLocked

(* a write of another session is followed while a scan runs or is still
   to come: after the last scan no vacuum step reads the pages again *)
ScanAhead == budget.scans > 0 \/ InScan

ConcurrentInsert(b) ==
    /\ budget.inserts > 0 /\ ScanAhead
    /\ b \in Existing /\ b \notin locked /\ LockGranted(b)
    /\ page[b].kind = "leaf" /\ IsLive(page[b]) /\ ~page[b].followRight
    /\ b = GIST_ROOT_BLKNO \/ Parents(b) # {}
    /\ Len(page[b].tuples) < MaxTuples
    /\ page' = [page EXCEPT ![b].tuples = Append(@, "live")]
    /\ budget' = [budget EXCEPT !.inserts = @ - 1]
    /\ hist' = Wrote(IF InScan /\ blockset_get(b, vstate.emptyLeafPagesMap)
                     THEN [hist EXCEPT !.gained = @ \cup {b}] ELSE hist)
    /\ UNCHANGED <<numPages, fsm, fsmUpper, lsn, relNeedsWAL, nextXid, running>>
    /\ UNCHANGED <<pc, vstate, stats, info, loc, locked>>
    /\ UNCHANGED bsVars
    /\ UNCHANGED inserterLocked

(* can a page the free-space map offers be reused for a new page? *)
Recyclable(b) ==
    /\ b \in fsm /\ b \in Existing /\ b \notin locked /\ LockGranted(b)
    /\ PageIsNew(page[b]) \/ GistPageIsDeleted(page[b])
    /\ \A t \in running : ~(t < page[b].deleteXid)

ConcurrentSplit(b, keep, nb) ==
    /\ budget.splits > 0 /\ ScanAhead
    /\ b \in Existing /\ b \notin locked /\ LockGranted(b) /\ b # GIST_ROOT_BLKNO
    /\ IsLive(page[b]) /\ ~page[b].followRight
    /\ Parents(b) # {}
    /\ keep \in 1 .. PageGetMaxOffsetNumber(page[b]) - 1
    /\ \/ Recyclable(nb) /\ numPages' = numPages
       \/ nb = numPages /\ nb \in Blocks /\ numPages' = U32Inc(numPages)
    /\ LET old == page[b]
           n == PageGetMaxOffsetNumber(old)
           left == [old EXCEPT !.tuples = SubSeq(old.tuples, 1, Len(old.tuples) - (n - keep) ),
                               !.downlinks = SubSeq(old.downlinks, 1, Len(old.downlinks) - (n - keep)),
                               !.rightlink = nb,
                               !.followRight = TRUE]
           right == [NewPage EXCEPT
                       !.kind = old.kind,
                       !.tuples = IF old.kind = "leaf" THEN SubSeq(old.tuples, keep + 1, n) ELSE <<>>,
                       !.downlinks = IF old.kind = "internal" THEN SubSeq(old.downlinks, keep + 1, n) ELSE <<>>,
                       !.rightlink = old.rightlink,
                       !.nsn = old.nsn]
       IN  page' = [page EXCEPT ![b] = left, ![nb] = right]
    /\ fsm' = fsm \ {nb}
    /\ fsmUpper' = fsmUpper \ {nb}
    /\ budget' = [budget EXCEPT !.splits = @ - 1]
    /\ hist' = Wrote(IF InScan
                     THEN [hist EXCEPT !.splitSince = @ \cup {b},
                                       !.rights = @ \cup {nb},
                                       !.visits[nb] = 0,
                                       !.owed = IF page[b].kind = "leaf" /\ NotYetReached(b)
                                                THEN @ \cup {nb} ELSE @ \ {nb}]
                     ELSE hist)
    /\ UNCHANGED <<lsn, relNeedsWAL, nextXid, running>>
    /\ UNCHANGED <<pc, vstate, stats, info, loc, locked>>
    /\ UNCHANGED bsVars
    /\ UNCHANGED inserterLocked

(* the downlink of the right half is inserted into the parent *)
ConcurrentFinishSplit(b) ==
    /\ b \in Existing /\ b \notin locked /\ LockGranted(b)
    /\ IsLive(page[b]) /\ page[b].followRight
    /\ \E q \in Parents(b) :
          /\ q \notin locked /\ LockGranted(q)
          /\ ~page[q].followRight
          /\ page' = [page EXCEPT
                ![q].downlinks = InsertAfter(@, OffsetOf(@, b), page[b].rightlink),
                ![b].followRight = FALSE,
                ![b].nsn = lsn + 1]
    /\ lsn' = lsn + 1
    /\ hist' = Wrote(hist)
    /\ UNCHANGED <<numPages, fsm, fsmUpper, relNeedsWAL, nextXid, running, budget>>
    /\ UNCHANGED <<pc, vstate, stats, info, loc, locked>>
    /\ UNCHANGED bsVars
    /\ UNCHANGED inserterLocked

(* an inserting session has come to the left half of an unfinished split and
   holds it exclusive-locked; it goes on to ask for the lock of the parent,
   the child still locked *)
InserterLockChild(b) ==
    /\ ScanAhead
    /\ b \in Existing /\ b \notin locked /\ LockGranted(b)
    /\ IsLive(page[b]) /\ page[b].followRight
    /\ Parents(b) # {}
    /\ inserterLocked' = inserterLocked \cup {b}
    /\ UNCHANGED diskVars
    /\ UNCHANGED vacVars
    /\ UNCHANGED bsVars

(* the session holding b is granted the parent: the downlink of the right
   half is inserted, follow-right is cleared and both pages are unlocked *)
InserterFinishSplit(b) ==
    /\ b \in inserterLocked
    /\ \E q \in Parents(b) :
          /\ q \notin locked /\ LockGranted(q)
          /\ ~page[q].followRight
          /\ page' = [page EXCEPT
                ![q].downlinks = InsertAfter(@, OffsetOf(@, b), page[b].rightlink),
                ![b].followRight = FALSE,
                ![b].nsn = lsn + 1]
    /\ lsn' = lsn + 1
    /\ hist' = Wrote(hist)
    /\ inserterLocked' = inserterLocked \ {b}
    /\ UNCHANGED <<numPages, fsm, fsmUpper, relNeedsWAL, nextXid, running, budget>>
    /\ UNCHANGED <<pc, vstate, stats, info, loc, locked>>
    /\ UNCHANGED bsVars

BeginTransaction ==
    /\ budget.xids > 0
    /\ running' = running \cup {nextXid}
    /\ nextXid' = nextXid + 1
    /\ budget' = [budget EXCEPT !.xids = @ - 1]
    /\ UNCHANGED <<page, numPages, fsm, fsmUpper, lsn, relNeedsWAL>>
    /\ UNCHANGED vacVars
    /\ UNCHANGED bsVars
    /\ UNCHANGED inserterLocked

EndTransaction(t) ==
    /\ t \in running
    /\ running' = running \ {t}
    /\ UNCHANGED <<page, numPages, fsm, fsmUpper, lsn, relNeedsWAL, nextXid, budget>>
    /\ UNCHANGED vacVars
    /\ UNCHANGED bsVars
    /\ UNCHANGED inserterLocked

(* ================================================================== *)
(* The vacuum backend                                                  *)
(* ================================================================== *)
NoStats ==
    [isnull |-> TRUE, estimated_count |-> FALSE, num_index_tuples |-> 0,
     pages_deleted |-> U32(0), num_pages |-> U32(0), pages_free |-> U32(0),
     tuples_removed |-> 0]

(* palloc0(sizeof(IndexBulkDeleteResult)) *)
ZeroStats == [NoStats EXCEPT !.isnull = FALSE]

NoInfo == [analyze_only |-> FALSE, estimated_count |-> FALSE, num_heap_tuples |-> 0]

NoVState ==
    [startNSN |-> 0, totFreePages |-> U32(0), emptyPages |-> U32(0),
     internalPagesMap |-> NULL, emptyLeafPagesMap |-> NULL]

NoLoc ==
    [caller |-> "none", callback |-> FALSE, blkno |-> GIST_ROOT_BLKNO,
     num_pages |-> U32(0), cur |-> GIST_ROOT_BLKNO, x |-> InvalidBlockNumber,
     off |-> 0, todelete |-> <<>>, buftodelete |-> <<>>,
     txid |-> InvalidTransactionId, i |-> 0]

(* faulty variant of ResetCounts: the live-entry total is carried over *)
ResetCountsKeepTuples(st) ==
    [st EXCEPT !.estimated_count = FALSE, !.pages_deleted = U32(0)]

(* stats->estimated_count = false; stats->num_index_tuples = 0;
   stats->pages_deleted = 0; *)
ResetCounts(st) ==
    [st EXCEPT !.estimated_count = FALSE,
               !.num_index_tuples = 0,
               !.pages_deleted = U32(0)]

(* gistvacuumscan, up to the first relation-length check *)
ScanBegin(st, caller, withCallback, given) ==
    /\ budget.scans > 0
    /\ stats' = ResetCounts(st)
    /\ vstate' = [NoVState EXCEPT !.startNSN = StartNSN]
    /\ lsn' = IF relNeedsWAL THEN lsn ELSE NextRecPtr
    /\ loc' = [NoLoc EXCEPT !.caller = caller, !.callback = withCallback]
    /\ pc' = "length"
    /\ hist' = IF caller = "cleanup"
               THEN [NoHist EXCEPT !.lastCleanup = hist.lastCleanup,
                                   !.cleanupGiven = given,
                                   !.cleanupSameInfo = (info' = info)]
               ELSE NoHist
    /\ budget' = [budget EXCEPT !.scans = @ - 1]

(* gistbulkdelete(info, stats, callback, callback_state); arg: the stats passed *)
gistbulkdelete(arg) ==
    /\ pc = "idle"
    /\ arg = "prev" => ~stats.isnull
    /\ ScanBegin(IF arg = "null" THEN ZeroStats ELSE stats, "bulkdelete", TRUE, FALSE)
    /\ info' = NoInfo
    /\ UNCHANGED <<page, numPages, fsm, fsmUpper, relNeedsWAL, nextXid, running, locked>>
    /\ UNCHANGED bsVars
    /\ UNCHANGED inserterLocked

(* faulty variant of NeedsScan: cleanup always makes its own pass *)
NeedsScanAlways(st) == TRUE

(* if (stats == NULL) *)
NeedsScan(st) == st.isnull

(* gistvacuumcleanup(info, stats) *)
gistvacuumcleanup(arg, analyze_only, estimated_count, num_heap_tuples) ==
    /\ pc = "idle"
    /\ arg = "prev" => ~stats.isnull
    /\ info' = [analyze_only |-> analyze_only, estimated_count |-> estimated_count,
                num_heap_tuples |-> num_heap_tuples]
    /\ LET st == IF arg = "null" THEN NoStats ELSE stats
       IN  IF analyze_only
           THEN /\ stats' = st
                /\ pc' = "idle"
                /\ hist' = [hist EXCEPT !.lastCleanup = NoCleanup]
                /\ UNCHANGED <<vstate, loc, budget, lsn>>
           ELSE IF NeedsScan(st)
           THEN ScanBegin(ZeroStats, "cleanup", FALSE, arg = "prev")
           ELSE /\ stats' = st
                /\ pc' = "clamp"
                /\ loc' = [NoLoc EXCEPT !.caller = "cleanup"]
                /\ hist' = [hist EXCEPT !.cleanupGiven = TRUE,
                                        !.cleanupSameInfo = (info' = info)]
                /\ UNCHANGED <<vstate, budget, lsn>>
    /\ UNCHANGED <<page, numPages, fsm, fsmUpper, relNeedsWAL, nextXid, running, locked>>
    /\ UNCHANGED bsVars
    /\ UNCHANGED inserterLocked

(* faulty variant of ClampTuples: the total is believed as counted *)
ClampTuplesNever(st, inf) == st

(* if (!info->estimated_count) { if (stats->num_index_tuples >
   info->num_heap_tuples) stats->num_index_tuples = info->num_heap_tuples; } *)
ClampTuples(st, inf) ==
    IF ~inf.estimated_count /\ st.num_index_tuples > inf.num_heap_tuples
    THEN [st EXCEPT !.num_index_tuples = inf.num_heap_tuples]
    ELSE st

(* the tail of gistvacuumcleanup: disbelieve a total above the heap's count *)
CleanupReturn ==
    /\ pc = "clamp"
    /\ stats' = ClampTuples(stats, info)
    /\ pc' = "idle"
    /\ loc' = NoLoc
    /\ hist' = [hist EXCEPT !.cleanupGiven = FALSE, !.cleanupSameInfo = FALSE,
                            !.lastCleanup =
                  [valid |-> TRUE, given |-> hist.cleanupGiven,
                   counted |-> stats.num_index_tuples,
                   num_pages |-> stats'.num_pages, pages_free |-> stats'.pages_free,
                   pages_deleted |-> stats'.pages_deleted,
                   num_index_tuples |-> stats'.num_index_tuples]]
    /\ UNCHANGED <<vstate, info, locked>>
    /\ UNCHANGED diskVars
    /\ UNCHANGED bsVars
    /\ UNCHANGED inserterLocked

(* faulty variant of ScanDone: the outer loop is left after its first pass *)
ScanDoneAfterFirstPass(blkno, num_pages) == blkno # GIST_ROOT_BLKNO

(* Quit if we've scanned the whole relation: if (blkno >= num_pages) break; *)
ScanDone(blkno, num_pages) == ~U32Lt(blkno, num_pages)

(* gistvacuumscan: the relation-length check at the head of the outer loop *)
ScanCheckLength ==
    /\ pc = "length"
    /\ LET num_pages == numPages
       IN  IF ScanDone(loc.blkno, num_pages)
           THEN /\ pc' = "phase1end"
                /\ loc' = [loc EXCEPT !.num_pages = num_pages]
                /\ hist' = hist
           ELSE /\ pc' = "page"
                /\ loc' = [loc EXCEPT !.num_pages = num_pages, !.cur = loc.blkno]
                /\ hist' = IF loc.blkno # GIST_ROOT_BLKNO
                           THEN [hist EXCEPT !.regrown = TRUE] ELSE hist
    /\ UNCHANGED <<vstate, stats, info, locked>>
    /\ UNCHANGED diskVars
    /\ UNCHANGED bsVars
    /\ UNCHANGED inserterLocked

(* ------------------------------------------------------------------ *)
(* gistvacuumpage: one visit (restart: ... goto restart)               *)
(* ------------------------------------------------------------------ *)
Offsets(n) == [k \in 1 .. n |-> k]

(* faulty variant of LeafToDelete: every entry is taken, whatever the callback says *)
LeafToDeleteAll(p, hasCallback) ==
    IF hasCallback THEN Offsets(Len(p.tuples)) ELSE <<>>

(* the offsets the callback marks dead, in ascending order *)
LeafToDelete(p, hasCallback) ==
    IF hasCallback
    THEN SelectSeq(Offsets(Len(p.tuples)), LAMBDA off : callback(p.tuples[off]))
    ELSE <<>>

(* faulty variant of RecurseTo: a split page is never chased *)
RecurseToNever(p, startNSN, orig_blkno) == InvalidBlockNumber

(* faulty variant of RecurseTo: only a completed split is chased *)
RecurseToNsnOnly(p, startNSN, orig_blkno) ==
    IF /\ startNSN < GistPageGetNSN(p)
       /\ p.rightlink # InvalidBlockNumber
       /\ U32Lt(p.rightlink, orig_blkno)
    THEN p.rightlink
    ELSE InvalidBlockNumber

(* faulty variant of RecurseTo: the right-link is compared with the block
   being processed, not with the block the outer loop has reached *)
RecurseToBelowCurrent(p, startNSN, orig_blkno) ==
    IF /\ GistFollowRight(p) \/ startNSN < GistPageGetNSN(p)
       /\ p.rightlink # InvalidBlockNumber
       /\ U32Lt(p.rightlink, loc.cur)
    THEN p.rightlink
    ELSE InvalidBlockNumber

(* the split-chasing test on a leaf *)
RecurseTo(p, startNSN, orig_blkno) ==
    IF /\ GistFollowRight(p) \/ startNSN < GistPageGetNSN(p)
       /\ p.rightlink # InvalidBlockNumber
       /\ U32Lt(p.rightlink, orig_blkno)
    THEN p.rightlink
    ELSE InvalidBlockNumber

(* faulty variant of PageRecyclable: a deleted page is not taken as free *)
PageRecyclableNewOnly(p) == PageIsNew(p)

(* the test under which phase 1 reports a page to the free-space map *)
PageRecyclable(p) == PageIsNew(p) \/ GistPageIsDeleted(p)

BumpVisits(h, b) ==
    [h EXCEPT !.visits[b] = IF @ < 3 THEN @ + 1 ELSE @,
              !.owed = @ \ {b},
              !.chased = IF b # loc.blkno THEN @ \cup {b} ELSE @,
              !.top = IF b = loc.blkno THEN Append(@, b) ELSE @]

(* faulty variant of RecordLeaf: every leaf visited is recorded as empty *)
RecordLeafAlways(vs, blkno, nremain) ==
    [vs EXCEPT !.emptyLeafPagesMap = blockset_set(@, blkno),
               !.emptyPages = U32Inc(@)]

(* if (nremain == 0) { blockset_set(emptyLeafPagesMap, blkno); emptyPages++; } *)
RecordLeaf(vs, blkno, nremain) ==
    IF nremain = 0
    THEN [vs EXCEPT !.emptyLeafPagesMap = blockset_set(@, blkno),
                    !.emptyPages = U32Inc(@)]
    ELSE vs

(* the offsets of p at which GistTupleIsInvalid(idxtuple) holds *)
InvalidTuples(p) ==
    {off \in FirstOffsetNumber .. Len(p.downlinks) : p.downlinks[off] \in p.invalid}

(* ereport(LOG, ...) once for each invalid tuple of the internal page *)
ReportInvalid(h, p) == [h EXCEPT !.logged = @ + Cardinality(InvalidTuples(p))]

(* faulty variant of RecordInternal: a page with an invalid tuple is left out *)
RecordInternalIfValid(vs, blkno, p) ==
    IF InvalidTuples(p) # {} THEN vs
    ELSE [vs EXCEPT !.internalPagesMap = blockset_set(@, blkno)]

(* vstate->internalPagesMap = blockset_set(vstate->internalPagesMap, blkno); *)
RecordInternal(vs, blkno, p) ==
    [vs EXCEPT !.internalPagesMap = blockset_set(@, blkno)]

gistvacuumpage ==
    /\ pc = "page"
    /\ LockGranted(loc.cur)
    /\ LET blkno == loc.cur
           orig_blkno == loc.blkno
           p == page[blkno]
           recurse_to == IF ~PageRecyclable(p) /\ GistPageIsLeaf(p)
                         THEN RecurseTo(p, vstate.startNSN, orig_blkno)
                         ELSE InvalidBlockNumber
           todelete == LeafToDelete(p, loc.callback)
           ntodelete == Len(todelete)
           remaining == PageIndexMultiDelete(p.tuples, todelete)
           nremain == Len(remaining) - FirstOffsetNumber + 1
           next == U32Inc(loc.blkno)
       IN  /\ IF PageRecyclable(p)
              THEN /\ fsm' = fsm \cup {blkno}
                   /\ vstate' = [vstate EXCEPT !.totFreePages = U32Inc(@)]
                   /\ stats' = [stats EXCEPT !.pages_deleted = U32Inc(@)]
                   /\ hist' = [BumpVisits(hist, blkno) EXCEPT
                                 !.recycledEarly =
                                    IF GistPageIsDeleted(p) /\ \E t \in running : t < p.deleteXid
                                    THEN @ \cup {blkno} ELSE @,
                                 !.foundFree = @ \cup {blkno}]
                   /\ page' = page
              ELSE IF GistPageIsLeaf(p)
              THEN /\ page' = IF ntodelete > 0
                              THEN [page EXCEPT ![blkno].tuples = remaining]
                              ELSE page
                   /\ stats' = [stats EXCEPT
                         !.tuples_removed = @ + ntodelete,
                         !.num_index_tuples = IF nremain = 0 THEN @ ELSE @ + nremain]
                   /\ vstate' = RecordLeaf(vstate, blkno, nremain)
                   /\ hist' = LeafCleaned(BumpVisits(hist, blkno), blkno, ntodelete)
                   /\ fsm' = fsm
              ELSE /\ vstate' = RecordInternal(vstate, blkno, p)
                   /\ hist' = ReportInvalid(BumpVisits(hist, blkno), p)
                   /\ UNCHANGED <<page, stats, fsm>>
           /\ IF recurse_to # InvalidBlockNumber
              THEN /\ loc' = [loc EXCEPT !.cur = recurse_to]
                   /\ pc' = "page"
              ELSE IF U32Lt(next, loc.num_pages)
              THEN /\ loc' = [loc EXCEPT !.blkno = next, !.cur = next]
                   /\ pc' = "page"
              ELSE /\ loc' = [loc EXCEPT !.blkno = next, !.cur = next]
                   /\ pc' = "length"
           /\ lsn' = IF ~PageRecyclable(p) /\ GistPageIsLeaf(p) /\ ntodelete > 0
                     THEN NextRecPtr ELSE lsn
    /\ UNCHANGED <<numPages, fsmUpper, relNeedsWAL, nextXid, running, budget>>
    /\ UNCHANGED <<info, locked>>
    /\ UNCHANGED bsVars
    /\ UNCHANGED inserterLocked

(* faulty variant of EmptyPagesLeft: phase 2 runs whatever phase 1 recorded *)
EmptyPagesLeftAlways(vs) == TRUE

(* vstate.emptyPages > 0 : the condition of the if and of the while of phase 2 *)
EmptyPagesLeft(vs) == vs.emptyPages # U32(0)

(* gistvacuumscan between the two phases: FSM sweep, page statistics *)
ScanPhase1End ==
    /\ pc = "phase1end"
    /\ fsmUpper' = IF vstate.totFreePages # U32(0) THEN fsm ELSE fsmUpper
    /\ stats' = [stats EXCEPT !.num_pages = loc.num_pages,
                              !.pages_free = vstate.totFreePages]
    /\ IF EmptyPagesLeft(vstate)
       THEN /\ pc' = "phase2"
            /\ loc' = [loc EXCEPT !.x = InvalidBlockNumber]
       ELSE /\ pc' = "finish"
            /\ loc' = loc
    /\ UNCHANGED <<page, numPages, fsm, lsn, relNeedsWAL, nextXid, running, budget>>
    /\ UNCHANGED <<vstate, info, locked, hist>>
    /\ UNCHANGED bsVars
    /\ UNCHANGED inserterLocked

(* ------------------------------------------------------------------ *)
(* gistvacuumscan, phase 2: rescan the internal pages                  *)
(* ------------------------------------------------------------------ *)

(* faulty variant of LeafDeletable: the last downlink is not protected *)
LeafDeletableNoKeep(parentPage, leafPage, ntodelete, maxoff) ==
    /\ PageGetMaxOffsetNumber(leafPage) = InvalidOffsetNumber
    /\ ~(GistFollowRight(leafPage)
         \/ GistPageGetNSN(parentPage) < GistPageGetNSN(leafPage))

(* faulty variant of LeafDeletable: the leaf is not re-checked for emptiness *)
LeafDeletableNoEmptyCheck(parentPage, leafPage, ntodelete, maxoff) ==
    /\ ~(GistFollowRight(leafPage)
         \/ GistPageGetNSN(parentPage) < GistPageGetNSN(leafPage))
    /\ ntodelete < maxoff - 1

(* the re-validation of an empty-looking child under its exclusive lock *)
LeafDeletable(parentPage, leafPage, ntodelete, maxoff) ==
    /\ PageGetMaxOffsetNumber(leafPage) = InvalidOffsetNumber
    /\ ~(GistFollowRight(leafPage)
         \/ GistPageGetNSN(parentPage) < GistPageGetNSN(leafPage))
    /\ ntodelete < maxoff - 1

(* faulty variant of IsCandidate: every child is looked at *)
IsCandidateAny(leafBlockNo, vs) == TRUE

(* blockset_get(leafBlockNo, vstate.emptyLeafPagesMap): only children recorded
   as empty by phase 1 are considered *)
IsCandidate(leafBlockNo, vs) == blockset_get(leafBlockNo, vs.emptyLeafPagesMap)

(* for (off = ...; off <= maxoff; off++) with `continue` for every downlink
   whose child is not recorded: the offset of the next downlink the loop
   stops at to lock the child, maxoff + 1 when there is none *)
RECURSIVE NextCandidate(_, _)
NextCandidate(parentPage, off) ==
    IF off > PageGetMaxOffsetNumber(parentPage) THEN off
    ELSE IF IsCandidate(parentPage.downlinks[off], vstate) THEN off
    ELSE NextCandidate(parentPage, off + 1)

(* faulty variant of HeldLocks: the root stays locked as well *)
HeldLocksAndRoot(x, buftodelete) == {x, GIST_ROOT_BLKNO} \cup Range(buftodelete)

(* faulty variant of HeldLocks: the queued leaves are unlocked after the check *)
HeldLocksParentOnly(x, buftodelete) == {x}

(* the buffers still exclusive-locked when the downlink loop has ended: the
   internal page and the leaves queued in buftodelete *)
HeldLocks(x, buftodelete) == {x} \cup Range(buftodelete)

(* faulty variant of SkipParent: the page is examined whatever it has become *)
SkipParentNever(parentPage) == FALSE

(* if (PageIsNew(page) || GistPageIsDeleted(page) || GistPageIsLeaf(page)) *)
SkipParent(parentPage) ==
    PageIsNew(parentPage) \/ GistPageIsDeleted(parentPage) \/ GistPageIsLeaf(parentPage)

(* faulty variant of Phase2Source: phase 2 walks the recorded empty leaves *)
Phase2SourceLeaves(vs) == vs.emptyLeafPagesMap

(* blockset_next(vstate.internalPagesMap, x) : the set phase 2 walks *)
Phase2Source(vs) == vs.internalPagesMap

(* the head of one iteration of the while loop: the next recorded internal
   page is locked and its downlinks are walked up to the first recorded
   child, whose lock the scan then asks for *)
Phase2NextInternal ==
    /\ pc = "phase2"
    /\ IF ~EmptyPagesLeft(vstate)
       THEN /\ pc' = "finish"
            /\ UNCHANGED <<loc, locked>>
       ELSE LET x == gist_blockset_next(Phase2Source(vstate), loc.x)
            IN  IF x = InvalidBlockNumber
                THEN /\ pc' = "finish"
                     /\ loc' = [loc EXCEPT !.x = x]
                     /\ locked' = locked
                ELSE LET parentPage == page[x]
                         off == NextCandidate(parentPage, FirstOffsetNumber)
                     IN  IF ~LockGranted(x)
                         THEN FALSE
                         ELSE IF SkipParent(parentPage)
                         THEN /\ pc' = "phase2"
                              /\ loc' = [loc EXCEPT !.x = x, !.blkno = x]
                              /\ locked' = locked
                         ELSE IF off <= PageGetMaxOffsetNumber(parentPage)
                         THEN /\ pc' = "recheck"
                              /\ loc' = [loc EXCEPT !.x = x, !.blkno = x, !.off = off,
                                                    !.todelete = <<>>,
                                                    !.buftodelete = <<>>]
                              /\ locked' = HeldLocks(x, <<>>)
                         ELSE /\ pc' = "phase2"
                              /\ loc' = [loc EXCEPT !.x = x, !.blkno = x]
                              /\ locked' = locked
    /\ hist' = IF pc' = "finish" THEN hist
               ELSE [hist EXCEPT !.examined = @ \cup {loc'.x}]
    /\ UNCHANGED <<vstate, stats, info>>
    /\ UNCHANGED diskVars
    /\ UNCHANGED bsVars
    /\ UNCHANGED inserterLocked

(* one recorded child of the locked internal page: it is locked and checked
   again, queued with its lock kept or unlocked, and the loop goes on to the
   next recorded child or ends *)
Phase2RecheckChild ==
    /\ pc = "recheck"
    /\ LET x == loc.blkno
           parentPage == page[x]
           maxoff == PageGetMaxOffsetNumber(parentPage)
           off == loc.off
           leafBlockNo == parentPage.downlinks[off]
           leafPage == page[leafBlockNo]
           queue == /\ GistPageIsLeaf(leafPage)
                    /\ LeafDeletable(parentPage, leafPage, Len(loc.todelete), maxoff)
           todelete == IF queue THEN Append(loc.todelete, off) ELSE loc.todelete
           buftodelete == IF queue THEN Append(loc.buftodelete, leafBlockNo)
                          ELSE loc.buftodelete
           next == NextCandidate(parentPage, off + 1)
       IN  /\ LockGranted(leafBlockNo)
           /\ hist' = [hist EXCEPT !.relocked = @ \cup {leafBlockNo}]
           /\ IF next <= maxoff
              THEN /\ pc' = "recheck"
                   /\ loc' = [loc EXCEPT !.off = next, !.todelete = todelete,
                                         !.buftodelete = buftodelete]
                   /\ locked' = HeldLocks(x, buftodelete)
              ELSE IF Len(todelete) > 0
              THEN /\ pc' = "readxid"
                   /\ loc' = [loc EXCEPT !.off = 0, !.todelete = todelete,
                                         !.buftodelete = buftodelete]
                   /\ locked' = HeldLocks(x, buftodelete)
              ELSE /\ pc' = "phase2"
                   /\ loc' = [loc EXCEPT !.off = 0, !.todelete = <<>>,
                                         !.buftodelete = <<>>]
                   /\ locked' = {}
    /\ UNCHANGED <<vstate, stats, info>>
    /\ UNCHANGED diskVars
    /\ UNCHANGED bsVars
    /\ UNCHANGED inserterLocked

(* faulty variant of ReadNewTransactionId: the vacuum's own (older) transaction id *)
ReadOldTransactionId == FirstNormalTransactionId

(* the next-transaction-id oracle *)
ReadNewTransactionId == nextXid

(* TransactionId txid = ReadNewTransactionId(); *)
Phase2ReadXid ==
    /\ pc = "readxid"
    /\ loc' = [loc EXCEPT !.txid = ReadNewTransactionId, !.i = 0]
    /\ hist' = [hist EXCEPT !.readXid =
                  [b \in Blocks |-> IF b \in Range(loc.buftodelete) THEN nextXid ELSE @[b]]]
    /\ pc' = "delete"
    /\ UNCHANGED <<vstate, stats, info, locked>>
    /\ UNCHANGED diskVars
    /\ UNCHANGED bsVars
    /\ UNCHANGED inserterLocked

(* faulty variant of DeleteOffset: the offset is not corrected for earlier removals *)
DeleteOffsetUnshifted(todelete, i) == todelete[i + 1]

(* todelete[i] - i : offsets move down as downlinks are removed *)
DeleteOffset(todelete, i) == todelete[i + 1] - i

(* faulty variant of CountRetired: the parent is recorded once more in
   internalPagesMap *)
CountRetiredAndRecord(vs, parent) ==
    [vs EXCEPT !.emptyPages = U32Dec(@),
               !.internalPagesMap = blockset_set(@, U32Inc(parent))]

(* faulty variant of CountRetired: the counter is lowered twice per leaf *)
CountRetiredTwice(vs, parent) == [vs EXCEPT !.emptyPages = U32Dec(U32Dec(@))]

(* vstate.emptyPages--; *)
CountRetired(vs, parent) == [vs EXCEPT !.emptyPages = U32Dec(@)]

(* faulty variant of UnlinkFromParent: an internal page left with a single
   downlink is marked deleted as well *)
UnlinkFromParentAndRetire(parentPage, off) ==
    [parentPage EXCEPT !.downlinks = PageIndexTupleDelete(@, off),
                       !.invalid = @ \cap Range(PageIndexTupleDelete(parentPage.downlinks, off)),
                       !.deleted = Len(parentPage.downlinks) = 2]

(* MarkBufferDirty(buffer); PageIndexTupleDelete(page, todelete[i] - i); *)
UnlinkFromParent(parentPage, off) ==
    [parentPage EXCEPT !.downlinks = PageIndexTupleDelete(@, off),
                       !.invalid = @ \cap Range(PageIndexTupleDelete(parentPage.downlinks, off))]

(* gistXLogSetDeleted(rel->rd_node, buftodelete[i], txid, buffer, ...) or
   gistGetFakeLSN; PageSetLSN(page, recptr); PageSetLSN(leafPage, recptr); *)
LeafRetired(h, leaf, parent) == LogAndStamp(h, "delete", {leaf, parent})

(* one iteration of the deletion loop: one leaf marked deleted and its
   downlink removed, covered by one WAL record *)
Phase2DeleteOne ==
    /\ pc = "delete"
    /\ LET i == loc.i
           parent == loc.blkno
           leaf == loc.buftodelete[i + 1]
           off == DeleteOffset(loc.todelete, i)
           last == i + 1 = Len(loc.todelete)
       IN  /\ page' = [page EXCEPT
                 ![leaf].deleteXid = loc.txid,
                 ![leaf].deleted = TRUE,
                 ![parent] = UnlinkFromParent(@, off)]
           /\ stats' = [stats EXCEPT !.pages_deleted = U32Inc(@)]
           /\ vstate' = CountRetired(vstate, parent)
           /\ hist' = [LeafRetired(hist, leaf, parent) EXCEPT
                 !.deleted = @ \cup {leaf},
                 !.unlinked = @ \cup (Range(page[parent].downlinks)
                                    \ Range(page'[parent].downlinks)),
                 !.unlinkXid[leaf] = nextXid,
                 !.parentOf[leaf] = parent]
           /\ lsn' = NextRecPtr
           /\ IF last
              THEN /\ locked' = {}
                   /\ loc' = [loc EXCEPT !.i = 0, !.todelete = <<>>, !.buftodelete = <<>>,
                                         !.txid = InvalidTransactionId]
                   /\ pc' = "phase2"
              ELSE /\ locked' = locked \ {leaf}
                   /\ loc' = [loc EXCEPT !.i = i + 1]
                   /\ pc' = "delete"
    /\ UNCHANGED <<numPages, fsm, fsmUpper, relNeedsWAL, nextXid, running, budget>>
    /\ UNCHANGED info
    /\ UNCHANGED bsVars
    /\ UNCHANGED inserterLocked

(* blockset_free of both maps; gistvacuumscan returns *)
ScanFinish ==
    /\ pc = "finish"
    /\ vstate' = NoVState
    /\ IF loc.caller = "cleanup"
       THEN /\ pc' = "clamp"
            /\ loc' = [NoLoc EXCEPT !.caller = "cleanup"]
       ELSE /\ pc' = "idle"
            /\ loc' = NoLoc
    /\ hist' = [hist EXCEPT !.finished = loc.caller]
    /\ UNCHANGED <<stats, info, locked>>
    /\ UNCHANGED diskVars
    /\ UNCHANGED bsVars
    /\ UNCHANGED inserterLocked

(* faulty variant of AtDelayPoint: interrupts are also served inside the
   deletion loop of phase 2 *)
AtDelayPointOrDeleting == pc \in {"page", "delete"}

(* vacuum_delay_point(), first statement after restart: in gistvacuumpage,
   before the buffer is read and locked *)
AtDelayPoint == pc = "page"

(* a cancel request served by vacuum_delay_point: the error unwinds
   gistvacuumscan, the scan's state and statistics are gone, pages stay as
   they are *)
VacuumCancel ==
    /\ AtDelayPoint
    /\ pc' = "idle"
    /\ vstate' = NoVState
    /\ stats' = NoStats
    /\ loc' = NoLoc
    /\ hist' = [hist EXCEPT !.finished = IF loc.caller = "bulkdelete"
                                         THEN "bulkdelete cancelled"
                                         ELSE "cleanup cancelled"]
    /\ UNCHANGED <<info, locked>>
    /\ UNCHANGED diskVars
    /\ UNCHANGED bsVars
    /\ UNCHANGED inserterLocked

(* would blockset_set(bs, blkno) have to palloc0 a node? *)
AllocatesNode(bs, blkno) ==
    AllocatedNodes(blockset_set(bs, blkno)) # AllocatedNodes(bs)

(* palloc0 inside blockset_set fails: gistvacuumpage has processed the page
   up to the blockset_set call, the error unwinds gistvacuumscan *)
VacuumOutOfMemory ==
    /\ pc = "page"
    /\ LockGranted(loc.cur)
    /\ LET blkno == loc.cur
           p == page[blkno]
           todelete == LeafToDelete(p, loc.callback)
           remaining == PageIndexMultiDelete(p.tuples, todelete)
           nremain == Len(remaining) - FirstOffsetNumber + 1
       IN  /\ ~PageRecyclable(p)
           /\ IF GistPageIsLeaf(p)
              THEN /\ nremain = 0
                   /\ AllocatesNode(vstate.emptyLeafPagesMap, blkno)
                   /\ page' = IF Len(todelete) > 0
                              THEN [page EXCEPT ![blkno].tuples = remaining]
                              ELSE page
              ELSE /\ AllocatesNode(vstate.internalPagesMap, blkno)
                   /\ page' = page
           /\ hist' = [LeafCleaned(BumpVisits(hist, blkno), blkno,
                                   IF GistPageIsLeaf(p) THEN Len(todelete) ELSE 0)
                          EXCEPT !.finished = "out of memory"]
           /\ lsn' = IF GistPageIsLeaf(p) /\ Len(todelete) > 0 THEN NextRecPtr ELSE lsn
    /\ pc' = "idle"
    /\ vstate' = NoVState
    /\ stats' = NoStats
    /\ loc' = NoLoc
    /\ UNCHANGED <<numPages, fsm, fsmUpper, relNeedsWAL, nextXid, running, budget>>
    /\ UNCHANGED <<info, locked>>
    /\ UNCHANGED bsVars
    /\ UNCHANGED inserterLocked

(* ================================================================== *)
(* Initial indexes                                                     *)
(* ================================================================== *)
B(n) == U32(n)

PagesOf(f, n) == [b \in Blocks |-> IF b[2] < n THEN f[b[2]] ELSE NewPage]

(* root -> three leaves holding only dead entries; block 1 is a page an
   earlier vacuum deleted *)
TreeFlat ==
    [numPages |-> B(5),
     page |-> PagesOf(
        [n \in 0 .. 4 |->
           CASE n = 0 -> InternalPage(<<B(2), B(3), B(4)>>, InvalidBlockNumber)
             [] n = 1 -> DeletedLeaf(FirstNormalTransactionId)
             [] n = 2 -> LeafPage(<<"dead">>, B(3))
             [] n = 3 -> LeafPage(<<"dead">>, B(4))
             [] n = 4 -> LeafPage(<<"dead", "dead">>, InvalidBlockNumber)], 5)]

(* root -> leaf A (all dead), leaf B (live); then a never-initialized page *)
TreeAB ==
    [numPages |-> B(4),
     page |-> PagesOf(
        [n \in 0 .. 3 |->
           CASE n = 0 -> InternalPage(<<B(1), B(2)>>, InvalidBlockNumber)
             [] n = 1 -> LeafPage(<<"dead">>, B(2))
             [] n = 2 -> LeafPage(<<"live", "dead">>, InvalidBlockNumber)
             [] n = 3 -> NewPage], 4)]

(* root -> internal page -> two leaves *)
TreeDeep ==
    [numPages |-> B(4),
     page |-> PagesOf(
        [n \in 0 .. 3 |->
           CASE n = 0 -> InternalPage(<<B(1)>>, InvalidBlockNumber)
             [] n = 1 -> InternalPage(<<B(2), B(3)>>, InvalidBlockNumber)
             [] n = 2 -> LeafPage(<<"dead", "dead">>, B(3))
             [] n = 3 -> LeafPage(<<"live">>, InvalidBlockNumber)], 4)]


(* root -> internal pages at blocks 7 and 4; page 7 has three leaves of which
   two hold only dead entries, page 4 has two leaves of which one does *)
TreeHigh ==
    [numPages |-> B(8),
     page |-> PagesOf(
        [n \in 0 .. 7 |->
           CASE n = 0 -> InternalPage(<<B(7), B(4)>>, InvalidBlockNumber)
             [] n = 1 -> LeafPage(<<"dead">>, B(2))
             [] n = 2 -> LeafPage(<<"live">>, B(3))
             [] n = 3 -> LeafPage(<<"dead">>, B(5))
             [] n = 4 -> InternalPage(<<B(5), B(6)>>, InvalidBlockNumber)
             [] n = 5 -> LeafPage(<<"dead">>, B(6))
             [] n = 6 -> LeafPage(<<"live", "dead">>, InvalidBlockNumber)
             [] n = 7 -> InternalPage(<<B(1), B(2), B(3)>>, B(4))], 8)]

(* root -> a leaf that is already empty and a leaf with a live entry; then a
   never-initialized page and a page an earlier vacuum deleted *)
TreeSparse ==
    [numPages |-> B(5),
     page |-> PagesOf(
        [n \in 0 .. 4 |->
           CASE n = 0 -> InternalPage(<<B(1), B(2)>>, InvalidBlockNumber)
             [] n = 1 -> LeafPage(<<>>, B(2))
             [] n = 2 -> LeafPage(<<"live">>, InvalidBlockNumber)
             [] n = 3 -> NewPage
             [] n = 4 -> DeletedLeaf(FirstNormalTransactionId)], 5)]

(* root -> two leaves, the second at the highest block; between them two
   never-initialized pages that splits of the leaves can take *)
TreeChase ==
    [numPages |-> B(5),
     page |-> PagesOf(
        [n \in 0 .. 4 |->
           CASE n = 0 -> InternalPage(<<B(1), B(4)>>, InvalidBlockNumber)
             [] n = 1 -> LeafPage(<<"live">>, B(4))
             [] n = 2 -> NewPage
             [] n = 3 -> NewPage
             [] n = 4 -> LeafPage(<<"live", "dead">>, InvalidBlockNumber)], 5)]

InitTrees == {TreeFlat, TreeAB, TreeDeep, TreeSparse}

QuietTrees == InitTrees \cup {TreeHigh}

NoNext == [asked |-> FALSE, x |-> InvalidBlockNumber, r |-> InvalidBlockNumber]

NoEnum == [started |-> FALSE, done |-> FALSE, x |-> InvalidBlockNumber, out |-> <<>>]

NoFree == [done |-> FALSE, allocated |-> {}, released |-> {}]

InitBlockSet ==
    /\ tbs = NULL
    /\ tmembers = {}
    /\ tcalls = 0
    /\ tnext = NoNext
    /\ tenum = NoEnum
    /\ tfree = NoFree

InitVacuum ==
    /\ pc = "idle"
    /\ vstate = NoVState
    /\ stats = NoStats
    /\ info = NoInfo
    /\ loc = NoLoc
    /\ locked = {}
    /\ hist = NoHist

InitDisk(trees, allowed) ==
    /\ \E t \in trees : page = t.page /\ numPages = t.numPages
    /\ fsm = {}
    /\ fsmUpper = {}
    /\ lsn = 0
    /\ relNeedsWAL = TRUE
    /\ nextXid = FirstNormalTransactionId
    /\ running = {}
    /\ budget = allowed
    /\ inserterLocked = {}

Init ==
    /\ InitDisk(InitTrees, [splits |-> MaxSplits, inserts |-> MaxInserts,
                            scans |-> MaxScans, xids |-> 0])
    /\ InitVacuum
    /\ InitBlockSet

HeapTupleCounts == {1, MaxBlocks * MaxTuples}

(* the IndexVacuumInfo of a gistvacuumcleanup call; an analyze-only call
   returns before it reads the other fields, so one such call stands for
   all of them *)
CleanupCalls ==
    {c \in [analyze_only : BOOLEAN, estimated_count : BOOLEAN,
            num_heap_tuples : HeapTupleCounts] :
        c.analyze_only => (~c.estimated_count /\ c.num_heap_tuples = 1)}

Concurrent ==
    \/ \E b \in Blocks : ConcurrentInsert(b)
    \/ \E b \in Blocks, nb \in Blocks, keep \in 1 .. MaxTuples + 1 :
          ConcurrentSplit(b, keep, nb)
    \/ \E b \in Blocks : ConcurrentFinishSplit(b)

Transactions ==
    \/ BeginTransaction
    \/ \E t \in running : EndTransaction(t)

Vacuum ==
    \/ \E arg \in {"null", "prev"} : gistbulkdelete(arg)
    \/ \E arg \in {"null", "prev"}, c \in CleanupCalls :
          gistvacuumcleanup(arg, c.analyze_only, c.estimated_count, c.num_heap_tuples)
    \/ CleanupReturn
    \/ ScanCheckLength
    \/ gistvacuumpage
    \/ ScanPhase1End
    \/ Phase2NextInternal
    \/ Phase2RecheckChild
    \/ Phase2ReadXid
    \/ Phase2DeleteOne
    \/ ScanFinish

Next == Concurrent \/ Vacuum

Spec == Init /\ [][Next]_vars

(* another process has dealt with a page that phase 1 recorded as internal:
   when phase 2 comes to it the page is new, deleted (its content still in
   place) or a leaf *)
ConcurrentReplaceInternal(b, how) ==
    /\ pc \in {"phase1end", "phase2"}
    /\ b \in Existing /\ b \notin locked /\ LockGranted(b)
    /\ blockset_get(b, vstate.internalPagesMap)
    /\ page[b].kind = "internal" /\ ~page[b].deleted
    /\ page' = [page EXCEPT ![b] =
                  CASE how = "new" -> NewPage
                    [] how = "deleted" -> [@ EXCEPT !.deleted = TRUE]
                    [] how = "leaf" -> LeafPage(<<>>, @.rightlink)]
    /\ hist' = Wrote(hist)
    /\ UNCHANGED <<numPages, fsm, fsmUpper, lsn, relNeedsWAL, nextXid, running, budget>>
    /\ UNCHANGED <<pc, vstate, stats, info, loc, locked>>
    /\ UNCHANGED bsVars
    /\ UNCHANGED inserterLocked

(* root -> internal pages 1 and 2, each with a leaf holding only a dead entry
   and a leaf holding a live entry *)
TreeSkip ==
    [numPages |-> B(7),
     page |-> PagesOf(
        [n \in 0 .. 6 |->
           CASE n = 0 -> InternalPage(<<B(1), B(2)>>, InvalidBlockNumber)
             [] n = 1 -> InternalPage(<<B(3), B(4)>>, B(2))
             [] n = 2 -> InternalPage(<<B(5), B(6)>>, InvalidBlockNumber)
             [] n = 3 -> LeafPage(<<"dead">>, B(4))
             [] n = 4 -> LeafPage(<<"live">>, B(5))
             [] n = 5 -> LeafPage(<<"dead">>, B(6))
             [] n = 6 -> LeafPage(<<"live">>, InvalidBlockNumber)], 7)]

(* scans of an index whose internal pages other processes may replace between
   the two phases *)
InitSkip ==
    /\ InitDisk({TreeDeep, TreeHigh, TreeSkip}, [splits |-> 0, inserts |-> 0,
                             scans |-> MaxScans, xids |-> 0])
    /\ InitVacuum
    /\ InitBlockSet

NextSkip ==
    \/ Vacuum
    \/ \E b \in Blocks, how \in {"new", "deleted", "leaf"} :
          ConcurrentReplaceInternal(b, how)

SpecSkip == InitSkip /\ [][NextSkip]_vars

(* TreeSkip with the root's downlink to page 2 and page 1's downlink to the
   leaf at block 3 marked invalid *)
TreeInvalid ==
    [numPages |-> TreeSkip.numPages,
     page |-> [b \in Blocks |->
                 IF b = B(0) THEN [TreeSkip.page[b] EXCEPT !.invalid = {B(2)}]
                 ELSE IF b = B(1) THEN [TreeSkip.page[b] EXCEPT !.invalid = {B(3)}]
                 ELSE TreeSkip.page[b]]]

(* scans of an index with and without invalid tuples, no concurrent sessions *)
InitInvalid ==
    /\ InitDisk({TreeSkip, TreeInvalid}, [splits |-> 0, inserts |-> 0,
                                          scans |-> MaxRescans, xids |-> 0])
    /\ InitVacuum
    /\ InitBlockSet

SpecInvalid == InitInvalid /\ [][Vacuum]_vars

(* scans of an index that is WAL-logged or not (unlogged, temporary), no
   concurrent sessions *)
InitWal ==
    /\ \E t \in QuietTrees : page = t.page /\ numPages = t.numPages
    /\ fsm = {}
    /\ fsmUpper = {}
    /\ lsn = 0
    /\ relNeedsWAL \in BOOLEAN
    /\ nextXid = FirstNormalTransactionId
    /\ running = {}
    /\ budget = [splits |-> 0, inserts |-> 0, scans |-> MaxScans, xids |-> 0]
    /\ inserterLocked = {}
    /\ InitVacuum
    /\ InitBlockSet

SpecWal == InitWal /\ [][Vacuum]_vars

(* repeated scans of an index while transactions begin and end *)
InitXid ==
    /\ InitDisk({TreeAB, TreeFlat}, [splits |-> 0, inserts |-> 0,
                                     scans |-> MaxRescans, xids |-> MaxXid])
    /\ InitVacuum
    /\ InitBlockSet

NextXid == Transactions \/ Vacuum

SpecXid == InitXid /\ [][NextXid]_vars

(* an index of one page: the root is a leaf holding only dead entries *)
TreeRootLeaf ==
    [numPages |-> B(1),
     page |-> PagesOf([n \in 0 .. 0 |-> LeafPage(<<"dead", "dead">>, InvalidBlockNumber)], 1)]

(* the root is a leaf again after the index shrank: block 1 is a page an
   earlier vacuum deleted, block 2 was never initialised *)
TreeRootShrunk ==
    [numPages |-> B(3),
     page |-> PagesOf(
        [n \in 0 .. 2 |->
           CASE n = 0 -> LeafPage(<<"dead">>, InvalidBlockNumber)
             [] n = 1 -> DeletedLeaf(FirstNormalTransactionId)
             [] n = 2 -> NewPage], 3)]

(* repeated scans of indexes whose root is a leaf, and of one whose root is
   internal, no concurrent sessions *)
InitRoot ==
    /\ InitDisk({TreeRootLeaf, TreeRootShrunk, TreeDeep, TreeFlat},
                [splits |-> 0, inserts |-> 0, scans |-> MaxRescans, xids |-> 0])
    /\ InitVacuum
    /\ InitBlockSet

SpecRoot == InitRoot /\ [][Vacuum]_vars

(* repeated scans of an index no other session touches *)
InitQuiet ==
    /\ InitDisk(QuietTrees, [splits |-> 0, inserts |-> 0,
                             scans |-> MaxRescans, xids |-> 0])
    /\ InitVacuum
    /\ InitBlockSet

SpecQuiet == InitQuiet /\ [][Vacuum]_vars

(* the head of a phase-2 iteration is waiting for the lock of the next
   recorded internal page, which an inserting session holds *)
Phase2Waits ==
    /\ pc = "phase2" /\ EmptyPagesLeft(vstate)
    /\ LET x == gist_blockset_next(Phase2Source(vstate), loc.x)
       IN  x # InvalidBlockNumber /\ ~LockGranted(x)

(* no step of a gistvacuumscan call is held up for ever: a lock it asks for
   is granted once the page is free.  Phase2NextInternal can be taken whenever
   pc = "phase2" and the scan is not waiting, so its weak fairness is written
   with that guard in place of ENABLED. *)
ScanFair ==
    /\ WF_vars(ScanCheckLength)
    /\ WF_vars(gistvacuumpage)
    /\ WF_vars(ScanPhase1End)
    /\ []<>(pc # "phase2" \/ Phase2Waits) \/ []<><<Phase2NextInternal>>_vars
    /\ WF_vars(Phase2RecheckChild)
    /\ WF_vars(Phase2ReadXid)
    /\ WF_vars(Phase2DeleteOne)
    /\ WF_vars(ScanFinish)

(* a scan that always gets its locks in the end, among finitely many
   inserts, splits and relation extensions *)
InitLive ==
    /\ InitDisk({TreeDeep, TreeSparse}, [splits |-> MaxSplits, inserts |-> MaxInserts,
                                       scans |-> MaxScans, xids |-> 0])
    /\ InitVacuum
    /\ InitBlockSet

(* other sessions whose split completion is two lock requests: the left half
   first, then the parent *)
ConcurrentLocking ==
    \/ \E b \in Blocks : ConcurrentInsert(b)
    \/ \E b \in Blocks, nb \in Blocks, keep \in 1 .. MaxTuples + 1 :
          ConcurrentSplit(b, keep, nb)
    \/ \E b \in Blocks : InserterLockChild(b)
    \/ \E b \in Blocks : InserterFinishSplit(b)

(* other holders are short-lived: a session that holds the left half of a
   split finishes and unlocks once it can have the parent, and a split left
   unfinished on the way is taken up by some session *)
InserterFair ==
    /\ WF_vars(\E b \in Blocks : InserterFinishSplit(b))
    /\ WF_vars(\E b \in Blocks : InserterLockChild(b))

SpecLive == InitLive /\ [][ConcurrentLocking \/ Vacuum]_vars /\ ScanFair /\ InserterFair

(* one scan of an index whose last leaf can split onto lower free blocks *)
InitChase ==
    /\ InitDisk({TreeChase}, [splits |-> MaxSplits, inserts |-> MaxInserts,
                              scans |-> MaxScans, xids |-> 0])
    /\ InitVacuum
    /\ InitBlockSet

SpecChase == InitChase /\ [][Next]_vars

(* one scan of an index no other session touches, which a cancel request
   or a failed allocation may abort *)
InitCancel ==
    /\ InitDisk(QuietTrees, [splits |-> 0, inserts |-> 0,
                             scans |-> MaxScans, xids |-> 0])
    /\ InitVacuum
    /\ InitBlockSet

NextCancel == Vacuum \/ VacuumCancel \/ VacuumOutOfMemory

SpecCancel == InitCancel /\ [][NextCancel]_vars

(* ================================================================== *)
(* BlockSet on its own: sets built by sequences of blockset_set calls  *)
(* ================================================================== *)
MaxSetCalls == 3

BlockSetInputs ==
    {U32(0), U32(1), U32(7), U32(8), U32(255), U32(256), <<1, 0>>, <<256, 0>>,
     <<32768, 0>>, <<65535, 65534>>, InvalidBlockNumber}

BlockSetProbes ==
    BlockSetInputs \cup {U32(2), U32(9), U32(15), U32(257), <<1, 1>>, <<0, 65535>>,
                         <<32767, 65535>>, <<32768, 1>>, <<255, 0>>}

BlockSetSet(b) ==
    /\ tcalls < MaxSetCalls
    /\ ~tenum.started /\ ~tfree.done
    /\ tbs' = blockset_set(tbs, b)
    /\ tmembers' = tmembers \cup {b}
    /\ tcalls' = tcalls + 1
    /\ tnext' = NoNext
    /\ UNCHANGED <<tenum, tfree>>
    /\ UNCHANGED diskVars
    /\ UNCHANGED vacVars
    /\ UNCHANGED inserterLocked

(* one call x = blockset_next(bs, x) for an arbitrary x *)
BlockSetNext(x) ==
    /\ ~tenum.started /\ ~tfree.done
    /\ tnext' = [asked |-> TRUE, x |-> x, r |-> blockset_next(tbs, x)]
    /\ UNCHANGED <<tbs, tmembers, tcalls, tenum, tfree>>
    /\ UNCHANGED diskVars
    /\ UNCHANGED vacVars
    /\ UNCHANGED inserterLocked

(* one turn of the loop
     x = InvalidBlockNumber;
     while ((x = blockset_next(bs, x)) != InvalidBlockNumber) ... *)
BlockSetEnumerate ==
    /\ ~tenum.done /\ ~tfree.done
    /\ Len(tenum.out) <= MaxSetCalls
    /\ LET r == blockset_next(tbs, tenum.x)
       IN  tenum' = IF r = InvalidBlockNumber
                    THEN [tenum EXCEPT !.started = TRUE, !.done = TRUE, !.x = r]
                    ELSE [tenum EXCEPT !.started = TRUE, !.x = r, !.out = Append(@, r)]
    /\ UNCHANGED <<tbs, tmembers, tcalls, tnext, tfree>>
    /\ UNCHANGED diskVars
    /\ UNCHANGED vacVars
    /\ UNCHANGED inserterLocked

BlockSetFree ==
    /\ ~tfree.done
    /\ tfree' = [done |-> TRUE, allocated |-> AllocatedNodes(tbs),
                 released |-> blockset_free(tbs)]
    /\ UNCHANGED <<tbs, tmembers, tcalls, tnext, tenum>>
    /\ UNCHANGED diskVars
    /\ UNCHANGED vacVars
    /\ UNCHANGED inserterLocked

NextBlockSet ==
    \/ \E b \in BlockSetInputs : BlockSetSet(b)
    \/ \E x \in BlockSetProbes : BlockSetNext(x)
    \/ BlockSetEnumerate
    \/ BlockSetFree

InitBlockSetOnly == InitDisk({TreeAB}, [splits |-> 0, inserts |-> 0, scans |-> 0, xids |-> 0]) /\ InitVacuum /\ InitBlockSet

SpecBlockSet == InitBlockSetOnly /\ [][NextBlockSet]_vars

(* ================================================================== *)
(* Properties                                                          *)
(* ================================================================== *)
LiveLeaves(pg, np) ==
    {b \in Blocks : U32Lt(b, np) /\ pg[b].kind = "leaf" /\ ~pg[b].deleted}

(* the entries of live leaf pages for which the callback answers false *)
LiveEntries(pg, np) ==
    UNION {{<<b, k>> : k \in {j \in 1 .. Len(pg[b].tuples) : ~callback(pg[b].tuples[j])}}
           : b \in LiveLeaves(pg, np)}

NewlyDeleted == {b \in Blocks : ~page[b].deleted /\ page'[b].deleted}

AfterPhase1 == pc \in {"phase1end", "phase2", "recheck", "readxid", "delete", "finish"}

(* C1: no step of the vacuum or of any concurrent session lowers the number
   of index entries the callback does not mark dead that sit on live leaf
   pages: phase 1 removes only dead entries, phase 2 retires only leaves
   without entries. *)
C1_NoLiveEntryLost ==
    [][Cardinality(LiveEntries(page', numPages'))
         >= Cardinality(LiveEntries(page, numPages))]_vars

(* C1 witness: a scan removed dead entries, left a live entry on a leaf it
   visited, and retired an empty leaf. *)
C1_Witness ==
    /\ stats.tuples_removed > 0
    /\ hist.deleted # {}
    /\ \E b \in LiveLeaves(page, numPages) :
          hist.visits[b] > 0 /\ \E k \in 1 .. Len(page[b].tuples) : page[b].tuples[k] = "live"

(* C2: a page becomes deleted only in a step in which it is a leaf with zero
   entries that the vacuum holds locked, and that step counts it once in
   pages_deleted; a recorded-empty leaf that gained an entry before phase 2
   locked it is never deleted and keeps its downlink. *)
C2_DeletedOnlyIfEmpty ==
    /\ [][/\ \A b \in NewlyDeleted :
                /\ GistPageIsLeaf(page[b])
                /\ PageGetMaxOffsetNumber(page[b]) = 0
                /\ b \in locked
                /\ b \notin hist.gained
                /\ stats'.pages_deleted = U32Inc(stats.pages_deleted)
          /\ (pc \in {"phase2", "recheck", "readxid", "delete"} /\ NewlyDeleted = {})
                => stats'.pages_deleted = stats.pages_deleted
          /\ \A b \in hist'.gained : ~page'[b].deleted ]_vars
    /\ [][\A b \in hist.gained :
             (Parents(b) # {} /\ pc \in {"phase2", "recheck", "readxid", "delete"})
                => \E q \in Blocks : page'[q].kind = "internal"
                                     /\ b \in Range(page'[q].downlinks)]_vars

(* C2 witness: phase 2 examined the parent of a leaf that phase 1 recorded as
   empty and that got an insert in between; the leaf is still there. *)
C2_Witness ==
    \E b \in hist.gained :
        /\ Parents(b) \cap hist.examined # {}
        /\ ~page[b].deleted
        /\ pc = "finish"

(* C3: every leaf phase 2 marked deleted in this scan has not been split
   since the scan began. *)
C3_DeletedOnlyIfUnsplit ==
    \A b \in hist.deleted : b \notin hist.splitSince

(* C4: every live internal page keeps at least one downlink, and phase 2
   queues at most k-1 of the k downlinks of the page it holds locked. *)
C4_DownlinkKept ==
    /\ \A b \in Existing :
          (page[b].kind = "internal" /\ IsLive(page[b])) => Len(page[b].downlinks) >= 1
    /\ pc \in {"recheck", "readxid"}
          => Len(loc.todelete) <= Len(page[loc.blkno].downlinks) - 1

(* C4 witness: all k >= 2 children of the locked internal page are empty
   leaves that pass re-validation, and exactly k-1 are queued. *)
C4_Witness ==
    /\ pc = "readxid"
    /\ LET parentPage == page[loc.blkno]
           k == Len(parentPage.downlinks)
       IN  /\ k >= 2
           /\ Len(loc.todelete) = k - 1
           /\ \A j \in 1 .. k :
                 LET c == page[parentPage.downlinks[j]]
                 IN  /\ blockset_get(parentPage.downlinks[j], vstate.emptyLeafPagesMap)
                     /\ GistPageIsLeaf(c) /\ Len(c.tuples) = 0
                     /\ ~GistFollowRight(c) /\ ~(GistPageGetNSN(parentPage) < GistPageGetNSN(c))

(* C5: at every WAL-record boundary no internal page holds a downlink to a
   leaf this scan marked deleted, and the children whose downlinks this scan
   removed are exactly the leaves it marked deleted. *)
C5_UnlinkMatchesDelete ==
    /\ \A b \in hist.deleted : page[b].deleted /\ Parents(b) = {}
    /\ hist.unlinked = hist.deleted

(* C5 witness: two leaves were retired from one internal page, so the
   second removal used a shifted offset. *)
C5_Witness ==
    \E a \in hist.deleted, b \in hist.deleted :
        a # b /\ hist.parentOf[a] = hist.parentOf[b]

(* C6: once a scan run with the deletion callback has completed, no live
   leaf holds an entry the callback marks dead. *)
C6_NoDeadEntryLeft ==
    (hist.finished = "bulkdelete") =>
        \A b \in LiveLeaves(page, numPages) :
            \A k \in 1 .. Len(page[b].tuples) : ~callback(page[b].tuples[k])

(* C6 witness: bulk delete has returned after removing dead entries and
   after chasing a right sibling that a split placed at a lower block
   number. *)
C6_Witness ==
    /\ hist.finished = "bulkdelete"
    /\ pc = "idle"
    /\ hist.rights \cap hist.chased # {}
    /\ stats.tuples_removed > 1

(* C7 as stated: when phase 1 is over, every right sibling created by a
   split since the scan began was visited exactly once after the split. *)
C7_VisitedExactlyOnce ==
    AfterPhase1 => \A b \in hist.rights : hist.visits[b] = 1

(* C7 amended: when phase 1 is over, every right sibling created by the
   split of a leaf that the ascending loop had not yet visited has been
   visited after the split. *)
C7_OwedSiblingVisited ==
    AfterPhase1 => hist.owed = {}

(* C7 witness: phase 1 is over and it reached, by following a right-link,
   a right sibling created at a block number it had already passed. *)
C7_Witness ==
    /\ pc = "phase1end"
    /\ \E b \in hist.rights \cap hist.chased : hist.visits[b] >= 1

(* C8: phase 1 never reports as recyclable a deleted page whose deletion
   horizon some running transaction predates. *)
C8_NoEarlyRecycle ==
    hist.recycledEarly = {}

(* C9 as stated: the horizon of a leaf this scan marked deleted is above
   every transaction id assigned before the leaf was unlinked. *)
C9_HorizonCoversUnlink ==
    \A b \in hist.deleted : page[b].deleteXid >= hist.unlinkXid[b]

(* C9 amended: the horizon of a leaf this scan marked deleted is the oracle
   value read while the leaf was queued and locked, hence above every id
   assigned before that read; leaves retired from one internal page carry
   the same horizon. *)
C9_HorizonIsOracleRead ==
    /\ \A b \in hist.deleted :
          /\ page[b].deleteXid = hist.readXid[b]
          /\ page[b].deleteXid >= FirstNormalTransactionId
    /\ \A a \in hist.deleted, b \in hist.deleted :
          hist.parentOf[a] = hist.parentOf[b] => page[a].deleteXid = page[b].deleteXid
    /\ pc = "delete" =>
          \A k \in loc.i + 1 .. Len(loc.buftodelete) :
              /\ loc.buftodelete[k] \in locked
              /\ hist.readXid[loc.buftodelete[k]] = loc.txid

(* C9 witness: two leaves were retired from one page after a transaction
   had been assigned an id. *)
C9_Witness ==
    /\ nextXid > FirstNormalTransactionId
    /\ \E a \in hist.deleted, b \in hist.deleted :
          /\ a # b /\ hist.parentOf[a] = hist.parentOf[b]
          /\ page[a].deleteXid > FirstNormalTransactionId

(* C10: blockset_get answers true exactly for the block numbers passed to
   blockset_set so far, and false on the NULL set. *)
C10_GetIsMembership ==
    /\ \A b \in BlockSetProbes : blockset_get(b, tbs) = (b \in tmembers)
    /\ tbs = NULL => tmembers = {}

(* C10 witness: three distinct members, two of them in one bitmap byte and
   one above 2^31. *)
C10_Witness ==
    /\ Cardinality(tmembers) = 3
    /\ {U32(0), U32(1)} \subseteq tmembers
    /\ \E b \in tmembers : b[1] >= 32768

(* the members of S in ascending order: the reference ordered set *)
RECURSIVE SortedBlocks(_)
SortedBlocks(S) ==
    IF S = {} THEN <<>>
    ELSE LET m == CHOOSE a \in S : \A b \in S : U32Le(a, b)
         IN  <<m>> \o SortedBlocks(S \ {m})

(* C11: for a set of block numbers built by blockset_set, the loop
   x = blockset_next(bs, x) started from InvalidBlockNumber returns at every
   turn the next member of the ascending reference sequence, a member for
   which blockset_get is true, and ends with InvalidBlockNumber exactly when
   every member has been returned once. *)
C11_NextEnumeratesAscending ==
    (InvalidBlockNumber \notin tmembers) =>
        LET ref == SortedBlocks(tmembers)
        IN  /\ Len(tenum.out) <= Len(ref)
            /\ \A k \in 1 .. Len(tenum.out) :
                  /\ tenum.out[k] = ref[k]
                  /\ blockset_get(tenum.out[k], tbs)
            /\ tenum.done => tenum.out = ref
            /\ (tenum.started /\ tbs = NULL) => tenum.done /\ tenum.out = <<>>

(* C11 witness: an enumeration has ended after returning three members, the
   first one in the highest bit of a byte and the last one above 2^31. *)
C11_Witness ==
    /\ tenum.done
    /\ Len(tenum.out) = 3
    /\ tenum.out[1] = U32(7)
    /\ tenum.out[3][1] >= 32768
    /\ tenum.x = InvalidBlockNumber

(* the smallest member of S strictly greater than x (every member when x is
   InvalidBlockNumber), or InvalidBlockNumber when there is none *)
NextMember(S, x) ==
    LET above == IF x = InvalidBlockNumber THEN S
                 ELSE {a \in S : U32Lt(x, a)}
    IN  IF above = {} THEN InvalidBlockNumber
        ELSE CHOOSE a \in above : \A b \in above : U32Le(a, b)

(* C12: for every set of block numbers and every x, member or not,
   blockset_next(bs, x) is the smallest member strictly greater than x, the
   smallest member overall when x is InvalidBlockNumber, and
   InvalidBlockNumber when there is no such member or the set is NULL. *)
C12_NextIsSuccessor ==
    (tnext.asked /\ InvalidBlockNumber \notin tmembers) =>
        tnext.r = NextMember(tmembers, tnext.x)

(* C13: after blockset_free(bs) every radix node that blockset_set allocated
   for bs (root, level-2 and level-3 nodes, level-4 bitmaps) has been
   released, and only those; freeing the NULL set releases nothing. *)
C13_FreeReleasesAll ==
    tfree.done => tfree.released = tfree.allocated

(* the block numbers 0 .. n-1 in ascending order *)
AscendingBlocks(np) == [k \in 1 .. np[2] |-> U32(k - 1)]

(* C14: the blocks phase 1 visits as top-level block are 0, 1, 2, ... in
   ascending order, each once; when phase 1 is over they are exactly the
   blocks below the page count read at the final length check, and the
   outer loop is left only by a length check that finds no block at or
   above the scan position. *)
C14_TopLevelVisitsAscending ==
    /\ [][/\ pc' = "length" => hist'.top = AscendingBlocks(loc'.blkno)
          /\ pc' = "page" => hist'.top = AscendingBlocks(IF loc'.cur = loc'.blkno
                                                         THEN loc'.blkno
                                                         ELSE U32Inc(loc'.blkno))
          /\ AfterPhase1' => hist'.top = AscendingBlocks(loc'.num_pages)
          /\ (pc = "length" /\ pc' = "phase1end") =>
                /\ ~U32Lt(loc.blkno, numPages)
                /\ loc'.num_pages = numPages ]_vars
    /\ [][(pc = "page" /\ pc' = "phase1end") => FALSE]_vars

(* C14 witness: phase 1 is over, a later length check found blocks added by
   relation extension, and all blocks up to the final count were visited. *)
C14_Witness ==
    /\ pc = "phase1end"
    /\ hist.regrown
    /\ Len(hist.top) = numPages[2]
    /\ \E b \in hist.rights : \E k \in 1 .. Len(hist.top) : hist.top[k] = b

(* a scan has returned and its statistics are still the current ones *)
ScanReturned == pc \in {"idle", "clamp"} /\ hist.finished # "none" /\ ~stats.isnull

(* the leaves phase 2 retired from internal page q in the scan just made *)
RetiredFrom(q) == {b \in hist.deleted : hist.parentOf[b] = q}

(* the children of q that are leaves without entries and without a split
   since the scan began, retired or not *)
EmptyChildren(q) ==
    {b \in Range(page[q].downlinks) \cup RetiredFrom(q) :
        /\ GistPageIsLeaf(page[b])
        /\ PageGetMaxOffsetNumber(page[b]) = 0
        /\ b \notin hist.splitSince}

Min2(a, b) == IF a <= b THEN a ELSE b

(* C15: with no other session active, when a scan has returned, every internal
   page that had k downlinks of which e pointed to empty, unsplit leaves has
   lost exactly min(e, k-1) of those leaves and exactly their downlinks; each
   retired leaf is marked deleted with the current next-transaction-id, and
   pages_deleted counts the leaves retired on top of the pages phase 1 found
   free. *)
C15_Phase2RetiresMinEK ==
    ScanReturned =>
        /\ \A q \in Existing :
              (page[q].kind = "internal" /\ IsLive(page[q])) =>
                 LET k == Len(page[q].downlinks) + Cardinality(RetiredFrom(q))
                     e == Cardinality(EmptyChildren(q))
                 IN  /\ Cardinality(RetiredFrom(q)) = Min2(e, k - 1)
                     /\ RetiredFrom(q) \cap Range(page[q].downlinks) = {}
        /\ \A b \in hist.deleted : page[b].deleted /\ page[b].deleteXid = nextXid
        /\ stats.pages_deleted[2] = stats.pages_free[2] + Cardinality(hist.deleted)

(* C16: a page that is new or deleted when phase 1 visits it is recorded in
   the free-space map, left unmodified and counted once; the pages_free
   value of a scan is the number of distinct pages it found new or deleted. *)
C16_FreePagesCounted ==
    /\ [][(/\ pc = "page" /\ loc' # loc
           /\ PageIsNew(page[loc.cur]) \/ GistPageIsDeleted(page[loc.cur]))
            => /\ loc.cur \in fsm'
               /\ page' = page
               /\ loc.cur \notin hist.foundFree
               /\ vstate'.totFreePages = U32Inc(vstate.totFreePages)]_vars
    /\ []((pc \in {"phase2", "recheck", "readxid", "delete", "finish"} \/ ScanReturned)
            => stats.pages_free[2] = Cardinality(hist.foundFree))

(* C16 witness: a scan of an index that had one never-initialized page and
   one deleted page has returned pages_free = 2. *)
C16_Witness ==
    /\ ScanReturned
    /\ stats.pages_free = U32(2)
    /\ \E a \in hist.foundFree, b \in hist.foundFree :
          /\ PageIsNew(page[a]) /\ GistPageIsDeleted(page[b])
          /\ {a, b} \subseteq fsm

(* C17: when gistvacuumcleanup returns for the second time in a row, called
   with the same info and with nothing written to the index by another
   session in between, the counts it returns (num_pages, pages_free,
   pages_deleted, num_index_tuples) are those the first call returned, both
   when the second call was given the statistics the first returned and when
   neither call was given statistics and each ran its own scan. *)
C17_CleanupTwiceSameCounts ==
    [][(/\ pc = "clamp" /\ pc' = "idle"
        /\ hist.lastCleanup.valid
        /\ hist.cleanupSameInfo
        /\ hist.cleanupGiven \/ ~hist.lastCleanup.given)
         => /\ stats'.num_pages = hist.lastCleanup.num_pages
            /\ stats'.pages_free = hist.lastCleanup.pages_free
            /\ stats'.pages_deleted = hist.lastCleanup.pages_deleted
            /\ stats'.num_index_tuples = hist.lastCleanup.num_index_tuples]_vars

(* C18: a scan that gistvacuumcleanup runs itself (no deletion callback)
   changes no index page: no leaf entry is removed, no downlink is removed
   and no leaf is marked deleted, even when leaves are already empty. *)
C18_CleanupScanChangesNoPage ==
    [][(loc.caller = "cleanup" /\ ~loc.callback) => page' = page]_vars

(* C19 as stated: after gistvacuumcleanup returns outside analyze-only mode,
   num_index_tuples never exceeds num_heap_tuples, whether or not the
   caller's count is flagged as an estimate. *)
C19_NeverAboveHeapCount ==
    [][(pc = "clamp" /\ pc' = "idle")
         => stats'.num_index_tuples <= info.num_heap_tuples]_vars

(* C19: when gistvacuumcleanup returns outside analyze-only mode and the
   caller's count is not flagged as an estimate, num_index_tuples does not
   exceed num_heap_tuples; a count already at or below num_heap_tuples, and
   any count when the caller's count is an estimate, is returned unchanged;
   no other statistic is touched. *)
C19_ClampedWhenExact ==
    [][(pc = "clamp" /\ pc' = "idle")
         => /\ ~info.estimated_count
                 => stats'.num_index_tuples <= info.num_heap_tuples
            /\ (info.estimated_count \/ stats.num_index_tuples <= info.num_heap_tuples)
                 => stats'.num_index_tuples = stats.num_index_tuples
            /\ stats' = [stats EXCEPT !.num_index_tuples = stats'.num_index_tuples]]_vars

(* a cleanup call with an exact heap count has returned less than was counted *)
C19_Witness ==
    /\ pc = "idle"
    /\ hist.lastCleanup.valid
    /\ ~info.estimated_count
    /\ hist.lastCleanup.counted > hist.lastCleanup.num_index_tuples
    /\ stats.num_index_tuples = info.num_heap_tuples

(* C20: when a run returns, every block found new or deleted in phase 1 and
   every leaf marked deleted in phase 2 has been reported to the free-space
   map and is covered by its sweep. *)
C20_FsmCoversBothPhases ==
    ScanReturned =>
        /\ (hist.foundFree \cup hist.deleted) \subseteq fsm
        /\ (hist.foundFree \cup hist.deleted) \subseteq fsmUpper

(* C21: phase 2 never starts before phase 1 has finished: while the outer
   loop of phase 1 runs no page is locked for reclamation, no downlink has
   been removed and no leaf has been marked deleted; phase 1 is left only
   when the length check finds every block below the page count it has just
   read visited; and with no empty leaf recorded phase 2 examines and locks no
   page. *)
C21_Phase2AfterPhase1 ==
    /\ [](pc \in {"length", "page", "phase1end"}
            => /\ locked = {} /\ hist.examined = {}
               /\ hist.deleted = {} /\ hist.unlinked = {})
    /\ [][(pc' \in {"phase2", "recheck", "readxid", "delete"} /\ pc \notin {"phase2", "recheck", "readxid", "delete"})
            => /\ pc = "phase1end"
               /\ ~U32Lt(loc.blkno, loc.num_pages)
               /\ hist.top = AscendingBlocks(loc.num_pages)]_vars
    /\ [][(pc' = "phase1end" /\ pc # "phase1end")
            => /\ pc = "length"
               /\ loc'.num_pages = numPages
               /\ ~U32Lt(loc.blkno, numPages)]_vars
    /\ []((AfterPhase1 /\ vstate.emptyLeafPagesMap = NULL)
            => /\ locked = {} /\ hist.examined = {}
               /\ hist.deleted = {} /\ hist.unlinked = {})

(* phase 2 holds pages locked for deletion after a phase 1 that had to go
   back to the length check because the relation had grown *)
C21_Witness ==
    /\ pc = "readxid"
    /\ locked # {}
    /\ hist.regrown

(* a step of the vacuum, as opposed to a step of another session *)
VacuumStep == <<pc, loc, vstate, stats>>' # <<pc, loc, vstate, stats>>

(* a leaf as one complete visit of gistbulkdelete leaves it *)
Vacuumed(p) == [p EXCEPT !.tuples = SelectSeq(@, LAMBDA t : ~callback(t))]

(* C22: at every delay point of phase 1 the vacuum holds no page lock, and
   a cancellation served there leaves every page either as one complete
   visit leaves it or as it was before the scan: every page visit changes
   at most the visited leaf, to what a complete visit leaves; the
   cancellation itself changes no page; a visited leaf of a bulk-delete
   scan holds no entry the callback marks; nothing is half-mutated. *)
C22_CancelLeavesWholePages ==
    /\ [](AtDelayPoint => locked = {})
    /\ [][(pc = "page" /\ VacuumStep)
            => \A b \in Blocks :
                  \/ page'[b] = page[b]
                  \/ /\ b = loc.cur /\ loc.caller = "bulkdelete"
                     /\ GistPageIsLeaf(page[b]) /\ ~PageRecyclable(page[b])
                     /\ page'[b] = Vacuumed(page[b])]_vars
    /\ [][(hist'.finished \in {"bulkdelete cancelled", "cleanup cancelled"}
           /\ hist.finished \notin {"bulkdelete cancelled", "cleanup cancelled"})
            => page' = page /\ locked' = {}]_vars
    /\ [](hist.finished \in {"bulkdelete cancelled", "cleanup cancelled"} =>
            /\ locked = {}
            /\ \A b \in Blocks :
                 (/\ hist.finished = "bulkdelete cancelled"
                  /\ hist.visits[b] > 0
                  /\ GistPageIsLeaf(page[b]) /\ ~PageRecyclable(page[b]))
                    => page[b] = Vacuumed(page[b]))

(* a bulk-delete scan was cancelled after it had cleaned one leaf and before
   it reached another leaf that holds a dead entry *)
C22_Witness ==
    /\ hist.finished = "bulkdelete cancelled"
    /\ pc = "idle"
    /\ \E b \in Blocks : hist.visits[b] > 0 /\ GistPageIsLeaf(page[b])
                         /\ \E t \in QuietTrees : page[b] # t.page[b] /\ page[b] = Vacuumed(t.page[b])
    /\ \E b \in Blocks : hist.visits[b] = 0 /\ GistPageIsLeaf(page[b])
                         /\ page[b] # Vacuumed(page[b])

(* C23: the vacuum never marks an internal page deleted: the page it marks
   deleted is a leaf it holds locked in the deletion loop of phase 2; phase
   1 changes no internal page, and the only change the vacuum makes to an
   internal page is the removal of one downlink per retired leaf, from the
   locked parent in phase 2. *)
C23_InternalPagesOnlyLoseDownlinks ==
    [][VacuumStep =>
         \A b \in Blocks :
            /\ (page'[b].deleted /\ ~page[b].deleted)
                  => /\ GistPageIsLeaf(page[b]) /\ GistPageIsLeaf(page'[b])
                     /\ pc = "delete" /\ b \in locked
            /\ (page[b].kind = "internal" /\ page'[b] # page[b])
                  => /\ pc = "delete" /\ b = loc.blkno /\ b \in locked
                     /\ \E off \in 1 .. Len(page[b].downlinks) :
                          /\ page'[b] = [page[b] EXCEPT
                                !.downlinks = PageIndexTupleDelete(@, off)]
                          /\ page'[page[b].downlinks[off]].deleted]_vars

(* phase 2 has retired a leaf from under an internal page other than the
   root, and that internal page is still there with the downlinks it kept *)
C23_Witness ==
    /\ pc = "finish"
    /\ \E b \in hist.deleted :
          LET q == hist.parentOf[b]
          IN  /\ q # GIST_ROOT_BLKNO
              /\ page[q].kind = "internal" /\ ~page[q].deleted
              /\ Len(page[q].downlinks) > 0
              /\ hist.visits[q] > 0

(* C24: the two block sets change only by the blockset_set call of a
   phase-1 page visit (and are dropped when the scan ends); phase 2 leaves
   them as they are; so when a node allocation fails no downlink has been
   removed and no leaf has been marked deleted by the scan, and no step of
   phase 1 changes a page's kind, deleted mark or downlinks. *)
C24_SetsPopulatedInPhase1Only ==
    /\ [][(/\ pc \notin {"idle", "finish"} /\ pc' # "idle"
           /\ \/ vstate'.emptyLeafPagesMap # vstate.emptyLeafPagesMap
              \/ vstate'.internalPagesMap # vstate.internalPagesMap)
            => /\ pc = "page"
               /\ hist.deleted = {} /\ hist.unlinked = {} /\ locked = {}
               /\ \/ /\ vstate'.emptyLeafPagesMap =
                            blockset_set(vstate.emptyLeafPagesMap, loc.cur)
                     /\ vstate'.internalPagesMap = vstate.internalPagesMap
                  \/ /\ vstate'.internalPagesMap =
                            blockset_set(vstate.internalPagesMap, loc.cur)
                     /\ vstate'.emptyLeafPagesMap = vstate.emptyLeafPagesMap]_vars
    /\ [](hist.finished = "out of memory"
            => hist.deleted = {} /\ hist.unlinked = {} /\ locked = {})
    /\ [][(pc \in {"length", "page", "phase1end"} /\ VacuumStep)
            => \A b \in Blocks :
                  /\ page'[b].deleted = page[b].deleted
                  /\ page'[b].kind = page[b].kind
                  /\ page'[b].downlinks = page[b].downlinks]_vars

(* an allocation failed when phase 1 had visited an empty leaf and an
   internal page *)
C24_Witness ==
    /\ hist.finished = "out of memory"
    /\ pc = "idle"
    /\ \E b \in Blocks : hist.visits[b] > 0 /\ GistPageIsLeaf(page[b])
                         /\ ~PageRecyclable(page[b])
                         /\ PageGetMaxOffsetNumber(page[b]) = 0
    /\ \E b \in Blocks : hist.visits[b] > 0 /\ page[b].kind = "internal"

(* the scan holds an internal page and waits for the lock of one of its
   children, while the session that holds the child waits for the lock of
   that internal page *)
LockCycle ==
    /\ pc = "recheck"
    /\ LET leafBlockNo == page[loc.blkno].downlinks[loc.off]
       IN  /\ ~LockGranted(leafBlockNo)
           /\ Parents(leafBlockNo) \subseteq locked

(* C25: among finitely many concurrent inserts, splits and relation
   extensions, with every lock granted once the page is free and other
   holders short-lived, a bulk-delete scan completes, and the scan, which
   locks the parent before the child, never waits for a page whose holder
   waits for a page the scan holds. *)
C25_BulkDeleteCompletes ==
    /\ [](~LockCycle)
    /\ (loc.caller = "bulkdelete" /\ pc # "idle") ~> (pc = "idle")

(* the loops of the scan end by themselves: a bulk-delete scan returns or
   is caught in a lock cycle, and each turn of phase 2 moves on to a higher
   internal page or leaves the loop *)
BulkDeleteCompletesUnlessLockCycle ==
    /\ (loc.caller = "bulkdelete" /\ pc # "idle") ~> (pc = "idle" \/ LockCycle)
    /\ [](pc = "phase2" =>
            LET x == gist_blockset_next(vstate.internalPagesMap, loc.x)
            IN  \/ x = InvalidBlockNumber
                \/ loc.x = InvalidBlockNumber
                \/ U32Lt(loc.x, x))

(* the test of C26 on the page a visit is about to process *)
ChaseDue ==
    LET p == page[loc.cur]
    IN  /\ GistPageIsLeaf(p) /\ ~PageIsNew(p) /\ ~GistPageIsDeleted(p)
        /\ GistFollowRight(p) \/ vstate.startNSN < GistPageGetNSN(p)
        /\ p.rightlink # InvalidBlockNumber
        /\ U32Lt(p.rightlink, loc.blkno)

(* C26: a page visit of phase 1 is followed by a visit of the page's
   right-link block, the outer loop staying on its block, if and only if the
   page is a leaf with (follow-right set or NSN newer than the scan's start
   NSN), a valid right-link, and a right-link below the block the outer loop
   has reached; otherwise the outer loop moves to its next block.  The same
   test, against the outer loop's block, is applied on a chased page. *)
C26_ChaseIffSplitToLowerBlock ==
    [][(pc = "page" /\ loc' # loc) =>
          IF ChaseDue
          THEN /\ pc' = "page"
               /\ loc'.cur = page[loc.cur].rightlink
               /\ loc'.blkno = loc.blkno
          ELSE /\ loc'.blkno = U32Inc(loc.blkno)
               /\ loc'.cur = loc'.blkno]_vars

(* a chased page is being left for its own right-link block, which lies
   above it and below the block the outer loop has reached *)
C26_Witness ==
    /\ pc = "page"
    /\ loc.cur # loc.blkno
    /\ \E a \in hist.chased :
          /\ page[a].rightlink = loc.cur
          /\ U32Lt(a, loc.cur)
          /\ U32Lt(loc.cur, loc.blkno)
          /\ hist.visits[a] > 0

(* C27: phase 2 examines the blocks recorded in internalPagesMap one by one
   in ascending order, none twice, and when its loop ends with the
   empty-page counter still positive every recorded block has been
   examined. *)
C27_Phase2VisitsEveryInternal ==
    /\ [][(pc = "phase2" /\ pc' # "finish" /\ loc' # loc)
            => /\ blockset_get(loc'.x, vstate.internalPagesMap)
               /\ loc'.x \notin hist.examined
               /\ \A b \in hist.examined : U32Lt(b, loc'.x)]_vars
    /\ []((pc = "finish" /\ EmptyPagesLeft(vstate))
            => \A b \in Blocks :
                  blockset_get(b, vstate.internalPagesMap) => b \in hist.examined)

(* C28: phase 2 locks, changes and marks deleted only children whose block
   number phase 1 of the same scan recorded in emptyLeafPagesMap; a child
   that is not recorded stays as it is under every step of phase 2. *)
C28_OnlyRecordedChildrenTouched ==
    /\ [](pc \in {"phase2", "recheck", "readxid", "delete", "finish"}
            => \A b \in hist.relocked \cup hist.deleted \cup (locked \ {loc.blkno}) :
                  blockset_get(b, vstate.emptyLeafPagesMap))
    /\ [][(pc \in {"phase2", "recheck", "readxid", "delete"} /\ VacuumStep)
            => \A b \in Blocks :
                  (~blockset_get(b, vstate.emptyLeafPagesMap) /\ b # loc.blkno)
                     => page'[b] = page[b]]_vars

(* a leaf was retired from an internal page that also has a child phase 1 did
   not record, and that child was not locked *)
C28_Witness ==
    /\ pc = "phase2"
    /\ loc.blkno \in hist.examined
    /\ \E d \in hist.deleted : hist.parentOf[d] = loc.blkno
    /\ \E c \in Range(page[loc.blkno].downlinks) :
          /\ ~blockset_get(c, vstate.emptyLeafPagesMap)
          /\ GistPageIsLeaf(page[c]) /\ ~GistPageIsDeleted(page[c])
          /\ c \notin hist.relocked

(* the leaves queued for deletion and not yet deleted *)
StillQueued == {loc.buftodelete[k] : k \in loc.i + 1 .. Len(loc.buftodelete)}

(* C29: from re-validation to deletion the internal page and every queued
   leaf stay exclusive-locked, so no other session changes them in between
   and each leaf is still empty and still linked when it is marked deleted;
   a candidate that fails re-validation is unlocked and left unchanged. *)
C29_QueuedLeafLockedUntilDeleted ==
    /\ [](pc \in {"recheck", "readxid", "delete"}
            => /\ loc.blkno \in locked
               /\ StillQueued \subseteq locked
               /\ \A l \in StillQueued :
                     /\ PageGetMaxOffsetNumber(page[l]) = InvalidOffsetNumber
                     /\ ~GistPageIsDeleted(page[l]) /\ ~GistFollowRight(page[l])
                     /\ l \in Range(page[loc.blkno].downlinks))
    /\ [][(pc \in {"recheck", "readxid", "delete"} /\ ~VacuumStep)
            => /\ page'[loc.blkno] = page[loc.blkno]
               /\ \A l \in StillQueued : page'[l] = page[l]]_vars
    /\ [][(pc = "delete" /\ VacuumStep)
            => LET leaf == loc.buftodelete[loc.i + 1]
               IN  /\ GistPageIsDeleted(page'[leaf])
                   /\ leaf \notin Range(page'[loc.blkno].downlinks)
                   /\ leaf \notin locked'
                   /\ \A l \in StillQueued \ {leaf} : page'[l] = page[l] /\ l \in locked'
                   /\ (pc' = "delete") = (loc.blkno \in locked')]_vars
    /\ [][(pc \in {"phase2", "recheck"} /\ VacuumStep)
            => /\ page' = page
               /\ \A c \in hist'.relocked \ Range(loc'.buftodelete) : c \notin locked'
               /\ \A c \in Range(loc.buftodelete) : c \in Range(loc'.buftodelete)]_vars

(* the second of two queued leaves is about to be deleted under a parent whose
   other recorded child failed re-validation and is unlocked *)
C29_Witness ==
    /\ pc = "delete" /\ loc.i >= 1
    /\ \E c \in Range(page[loc.blkno].downlinks) :
          /\ c \in hist.relocked /\ c \notin Range(loc.buftodelete) /\ c \notin locked

(* blocks recorded in emptyLeafPagesMap and not marked deleted by this scan *)
RecordedNotRetired ==
    {b \in Blocks : blockset_get(b, vstate.emptyLeafPagesMap)} \ hist.deleted

(* C30: from the end of phase 1 to the end of the scan the empty-page counter
   is at least the number of recorded blocks not yet retired, every
   retirement lowers a positive counter by one, and the loop ends on a zero
   counter only when no recorded block is left unretired. *)
C30_CounterCoversRecorded ==
    /\ [](pc \in {"phase1end", "phase2", "recheck", "readxid", "delete", "finish"}
            => \/ vstate.emptyPages[1] > 0
               \/ vstate.emptyPages[2] >= Cardinality(RecordedNotRetired))
    /\ [][(pc = "delete" /\ VacuumStep)
            => /\ vstate.emptyPages # U32(0)
               /\ U32Inc(vstate'.emptyPages) = vstate.emptyPages]_vars
    /\ []((pc \in {"phase2", "finish"} /\ vstate.emptyPages = U32(0))
            => RecordedNotRetired = {})

(* phase 2 is retiring leaves after phase 1 counted one empty leaf twice, at
   its own block and again by following a right-link *)
C30_Witness ==
    /\ pc \in {"phase2", "recheck", "readxid", "delete"}
    /\ hist.deleted # {}
    /\ \E b \in hist.chased :
          /\ blockset_get(b, vstate.emptyLeafPagesMap) /\ hist.visits[b] >= 2
    /\ vstate.emptyPages[2] > Cardinality(RecordedNotRetired)

(* C31: between the page visits of phase 1 the vacuum holds no lock (a visit
   locks and unlocks its one page within the step); in phase 2 the locks
   held are one internal page and children of it: the parent is locked
   first and alone, each child is locked in a later step while the parent
   is held, and locks are otherwise only released; between internal pages
   and when the scan has returned nothing is locked. *)
C31_LockDiscipline ==
    /\ [](pc \in {"idle", "length", "page", "phase1end", "phase2", "finish", "clamp"}
            => locked = {})
    /\ [](pc \in {"recheck", "readxid", "delete"}
            => /\ loc.blkno \in locked
               /\ page[loc.blkno].kind = "internal"
               /\ \A b \in locked \ {loc.blkno} :
                     /\ b \in Range(page[loc.blkno].downlinks)
                     /\ GistPageIsLeaf(page[b])
               /\ Cardinality({b \in locked : page[b].kind = "internal"}) = 1)
    /\ [][locked' # locked
            => \/ /\ locked = {} /\ pc = "phase2" /\ locked' = {loc'.blkno}
               \/ /\ pc = "recheck" /\ loc.blkno \in locked
                  /\ \/ locked' = {}
                     \/ /\ locked \subseteq locked'
                        /\ locked' \ locked = {page[loc.blkno].downlinks[loc.off]}
               \/ /\ locked' \subseteq locked /\ pc = "delete"]_vars

(* phase 2 holds an internal page and two of its children locked, after a
   phase 1 that followed a right-link *)
C31_Witness ==
    /\ pc = "readxid"
    /\ Cardinality(locked) >= 3
    /\ hist.chased # {}

(* the blocks a block set holds *)
MembersOf(bs) == {b \in Blocks : blockset_get(b, bs)}

(* C32: a scan starts with both sets empty and the counter zero, and each
   page visit of phase 1 adds the visited block to emptyLeafPagesMap and
   one to the counter exactly when the page is a leaf left with no entry
   after the dead ones are removed, adds the surviving entry count to the
   live total for every other leaf, adds the block to internalPagesMap
   exactly when the page is internal, and changes neither set nor the
   counter nor the live total when the page is new or deleted. *)
C32_SetsRecordWhatVisitsFound ==
    /\ [][(pc = "idle" /\ pc' = "length")
            => /\ MembersOf(vstate'.emptyLeafPagesMap) = {}
               /\ MembersOf(vstate'.internalPagesMap) = {}
               /\ vstate'.emptyPages = U32(0)
               /\ stats'.num_index_tuples = 0]_vars
    /\ [][(pc = "page" /\ pc' \in {"page", "length"} /\ VacuumStep)
            => LET p == page[loc.cur]
                   left == IF loc.callback THEN Vacuumed(p).tuples ELSE p.tuples
                   E == MembersOf(vstate.emptyLeafPagesMap)
                   I == MembersOf(vstate.internalPagesMap)
                   E2 == MembersOf(vstate'.emptyLeafPagesMap)
                   I2 == MembersOf(vstate'.internalPagesMap)
               IN  IF p.kind = "new" \/ p.deleted
                   THEN /\ E2 = E /\ I2 = I
                        /\ vstate'.emptyPages = vstate.emptyPages
                        /\ stats'.num_index_tuples = stats.num_index_tuples
                   ELSE IF p.kind = "leaf"
                   THEN /\ I2 = I
                        /\ IF Len(left) = 0
                           THEN /\ E2 = E \cup {loc.cur}
                                /\ vstate'.emptyPages = U32Inc(vstate.emptyPages)
                                /\ stats'.num_index_tuples = stats.num_index_tuples
                           ELSE /\ E2 = E
                                /\ vstate'.emptyPages = vstate.emptyPages
                                /\ stats'.num_index_tuples =
                                      stats.num_index_tuples + Len(left)
                   ELSE /\ E2 = E /\ I2 = I \cup {loc.cur}
                        /\ vstate'.emptyPages = vstate.emptyPages
                        /\ stats'.num_index_tuples = stats.num_index_tuples]_vars
    /\ [](pc = "phase1end"
            => /\ MembersOf(vstate.emptyLeafPagesMap) \cap MembersOf(vstate.internalPagesMap) = {}
               /\ \A b \in MembersOf(vstate.emptyLeafPagesMap) \cup
                           MembersOf(vstate.internalPagesMap) : hist.visits[b] > 0)

(* phase 1 has ended with an empty leaf and an internal page recorded, a
   non-empty leaf visited and a new or deleted page seen, none of the latter
   two in either set *)
C32_Witness ==
    /\ pc = "phase1end"
    /\ MembersOf(vstate.emptyLeafPagesMap) # {}
    /\ MembersOf(vstate.internalPagesMap) # {}
    /\ stats.num_index_tuples > 0
    /\ \E b \in hist.foundFree :
          /\ b \notin MembersOf(vstate.emptyLeafPagesMap)
          /\ b \notin MembersOf(vstate.internalPagesMap)

(* C33: a phase-2 iteration that starts with the empty-page counter at zero
   ends the loop without examining or locking a page; each deletion step
   retires one leaf, lowers the counter by one and raises pages_deleted by
   one; the examination of an internal page, whatever its candidates turn
   out to be, changes neither. *)
C33_CounterStopsPhase2 ==
    /\ [][(pc = "phase2" /\ VacuumStep /\ vstate.emptyPages = U32(0))
            => /\ pc' = "finish"
               /\ hist'.examined = hist.examined /\ hist'.relocked = hist.relocked
               /\ locked' = {} /\ page' = page]_vars
    /\ [][(pc = "delete" /\ VacuumStep)
            => /\ Cardinality(hist'.deleted \ hist.deleted) = 1
               /\ Cardinality({b \in Blocks : page'[b].deleted /\ ~page[b].deleted}) = 1
               /\ U32Inc(vstate'.emptyPages) = vstate.emptyPages
               /\ stats'.pages_deleted = U32Inc(stats.pages_deleted)]_vars
    /\ [][(pc \in {"phase2", "recheck", "readxid"} /\ VacuumStep)
            => /\ vstate'.emptyPages = vstate.emptyPages
               /\ stats'.pages_deleted = stats.pages_deleted
               /\ \A b \in Blocks : page'[b].deleted = page[b].deleted]_vars

(* the counter has come down to zero while a recorded internal page that the
   enumeration would reach next is still unexamined *)
C33_Witness ==
    /\ pc = "phase2"
    /\ vstate.emptyPages = U32(0)
    /\ hist.deleted # {}
    /\ gist_blockset_next(vstate.internalPagesMap, loc.x) # InvalidBlockNumber

(* C34: when the page phase 2 comes to is new, deleted or a leaf, the
   iteration changes no page, locks nothing, looks at no child, leaves the
   counter and the statistics as they are, and the loop goes on from that
   block. *)
C34_ChangedParentSkipped ==
    [][(pc = "phase2" /\ VacuumStep /\ pc' # "finish"
        /\ (page[loc'.x].kind # "internal" \/ page[loc'.x].deleted))
          => /\ blockset_get(loc'.x, vstate.internalPagesMap)
             /\ page' = page
             /\ locked' = {}
             /\ hist'.relocked = hist.relocked
             /\ vstate' = vstate /\ stats' = stats
             /\ pc' = "phase2"]_vars

(* phase 2 has passed a recorded internal page that is now deleted and still
   points to a recorded empty leaf, which is neither locked nor deleted, and
   has since retired a leaf under a later internal page *)
C34_Witness ==
    /\ pc = "phase2"
    /\ hist.deleted # {}
    /\ \E x \in hist.examined :
          /\ page[x].deleted
          /\ U32Lt(x, loc.x)
          /\ \E c \in Range(page[x].downlinks) :
                /\ blockset_get(c, vstate.emptyLeafPagesMap)
                /\ c \notin hist.relocked
                /\ ~page[c].deleted

(* the WAL records one step appends *)
Appended == hist'.walCount - hist.walCount

(* C35: a phase-1 visit of a leaf with dead entries removes them all in the
   one step and, when the index is WAL-logged, appends one record naming
   that page, whose LSN is set on the page; when it is not, no record is
   appended and the page gets the placeholder LSN the counter hands out.  A
   scan of such an index draws one more placeholder at its start.  A visit
   that finds
   no dead entry appends nothing and changes no page and no LSN.  Each
   retirement in phase 2 is one step that marks the leaf deleted and removes
   its downlink, covered by one record naming both pages, and both pages are
   set to that record's LSN. *)
C35_OneRecordPerPageChange ==
    /\ [][(pc = "page" /\ pc' \in {"page", "length"} /\ VacuumStep)
            => LET b == loc.cur
                   p == page[b]
                   dead == /\ p.kind = "leaf" /\ ~p.deleted /\ loc.callback
                           /\ \E k \in 1 .. Len(p.tuples) : callback(p.tuples[k])
               IN  IF dead
                   THEN /\ page'[b] = Vacuumed(p)
                        /\ \A c \in Blocks \ {b} : page'[c] = page[c]
                        /\ lsn' = lsn + 1
                        /\ hist'.stamped[b] = (IF relNeedsWAL THEN lsn' ELSE lsn)
                        /\ \A c \in Blocks \ {b} : hist'.stamped[c] = hist.stamped[c]
                        /\ IF relNeedsWAL
                           THEN /\ Appended = 1
                                /\ hist'.lastRec = [kind |-> "update", blocks |-> {b},
                                                    lsn |-> lsn']
                           ELSE Appended = 0
                   ELSE /\ Appended = 0 /\ page' = page /\ lsn' = lsn
                        /\ hist'.stamped = hist.stamped]_vars
    /\ [][(pc = "delete" /\ VacuumStep)
            => LET leaf == loc.buftodelete[loc.i + 1]
                   parent == loc.blkno
               IN  /\ page'[leaf].deleted /\ ~page[leaf].deleted
                   /\ leaf \in Range(page[parent].downlinks)
                   /\ leaf \notin Range(page'[parent].downlinks)
                   /\ lsn' = lsn + 1
                   /\ hist'.stamped[leaf] = (IF relNeedsWAL THEN lsn' ELSE lsn)
                   /\ hist'.stamped[parent] = hist'.stamped[leaf]
                   /\ \A c \in Blocks \ {leaf, parent} :
                         hist'.stamped[c] = hist.stamped[c] /\ page'[c] = page[c]
                   /\ IF relNeedsWAL
                      THEN /\ Appended = 1
                           /\ hist'.lastRec = [kind |-> "delete", blocks |-> {leaf, parent},
                                               lsn |-> lsn']
                      ELSE Appended = 0]_vars
    /\ [][(VacuumStep /\ pc \notin {"page", "delete"})
            => /\ Appended <= 0 /\ page' = page
               /\ hist'.stamped = hist.stamped \/ pc = "idle"
               /\ lsn' = (IF pc = "idle" /\ pc' = "length" /\ ~relNeedsWAL
                          THEN lsn + 1 ELSE lsn)]_vars

(* on a WAL-logged index a bulk-delete scan has cleaned a leaf that held two
   dead entries with one record, visited a leaf without dead entries, and has
   just retired a leaf *)
C35_Witness ==
    /\ relNeedsWAL
    /\ pc \in {"phase2", "delete"}
    /\ hist.lastRec.kind = "delete"
    /\ hist.walCount = 2
    /\ \E b \in hist.deleted : hist.stamped[b] = hist.stamped[hist.parentOf[b]]
    /\ \E b \in Blocks : /\ hist.visits[b] > 0 /\ GistPageIsLeaf(page[b])
                         /\ hist.stamped[b] = 0 /\ Len(page[b].tuples) > 0

(* the entries of live leaf pages for which the callback answers true *)
DeadEntries(pg, np) ==
    UNION {{<<b, k>> : k \in {j \in 1 .. Len(pg[b].tuples) : callback(pg[b].tuples[j])}}
           : b \in LiveLeaves(pg, np)}

(* C36: with no other session active, every scan starts with
   num_index_tuples and pages_deleted at zero, estimated_count false and
   tuples_removed as it was passed in (zero for fresh statistics); through a
   bulk-delete scan tuples_removed plus the number of marked entries still
   on leaves stays the same; and when the scan has returned no marked entry
   is left, num_index_tuples is the number of entries on leaf pages,
   num_pages is the length of the index and estimated_count is false. *)
C36_BulkDeleteStatistics ==
    /\ [][(pc = "idle" /\ pc' = "length")
            => /\ stats'.num_index_tuples = 0
               /\ stats'.pages_deleted = U32(0)
               /\ ~stats'.estimated_count
               /\ stats'.tuples_removed \in {0, stats.tuples_removed}]_vars
    /\ [][(pc # "idle" /\ loc.caller = "bulkdelete")
            => stats'.tuples_removed + Cardinality(DeadEntries(page', numPages'))
                  = stats.tuples_removed + Cardinality(DeadEntries(page, numPages))]_vars
    /\ [][(pc = "finish" /\ pc' = "idle" /\ loc.caller = "bulkdelete")
            => /\ DeadEntries(page', numPages') = {}
               /\ stats'.num_index_tuples = Cardinality(LiveEntries(page', numPages'))
               /\ stats'.num_pages = numPages'
               /\ ~stats'.estimated_count /\ ~stats'.isnull]_vars

(* a second bulk-delete call that reused the statistics of the first has
   returned: it removed nothing itself, and tuples_removed still holds the
   entries the first call removed *)
C36_Witness ==
    /\ pc = "idle" /\ hist.finished = "bulkdelete"
    /\ hist.walCount = 0
    /\ stats.tuples_removed > 1
    /\ stats.num_index_tuples > 0

(* what differs between st and its clamped value: nothing but the live total *)
ClampedAtMost(st2, st, inf) ==
    /\ [st2 EXCEPT !.num_index_tuples = 0] = [st EXCEPT !.num_index_tuples = 0]
    /\ st2.num_index_tuples \in {st.num_index_tuples, inf.num_heap_tuples}
    /\ st2.num_index_tuples <= st.num_index_tuples

(* C37: a gistvacuumcleanup call that is not analyze-only starts a scan
   exactly when it was given no statistics, and otherwise goes straight to
   the clamp with the statistics it was given; an analyze-only call returns
   at once with what it was given; neither the call nor the clamp changes a
   page, the length, the free-space map or a lock, and the clamp changes at
   most the live-entry total. *)
C37_CleanupScansOnlyWithoutStats ==
    /\ [][(pc = "idle" /\ loc'.caller = "cleanup")
            => /\ ~info'.analyze_only
               /\ (pc' = "length") = ~hist'.cleanupGiven
               /\ (pc' = "clamp") = hist'.cleanupGiven
               /\ pc' = "clamp" => (stats' = stats /\ ~stats.isnull)
               /\ pc' = "length" => stats' = [NoStats EXCEPT !.isnull = FALSE]
               /\ page' = page /\ numPages' = numPages /\ fsm' = fsm
               /\ lsn' = lsn /\ locked' = {}]_vars
    /\ [][(pc = "idle" /\ pc' = "idle" /\ (info' # info \/ stats' # stats))
            => /\ info'.analyze_only
               /\ stats' \in {stats, NoStats}
               /\ page' = page /\ numPages' = numPages /\ fsm' = fsm
               /\ lsn' = lsn /\ locked' = {}]_vars
    /\ [][(pc = "clamp" /\ pc' # "clamp")
            => /\ pc' = "idle"
               /\ ClampedAtMost(stats', stats, info)
               /\ page' = page /\ numPages' = numPages /\ fsm' = fsm
               /\ lsn' = lsn /\ locked' = {}]_vars

(* a cleanup call given the statistics of a bulk delete has returned them with
   the live total lowered to the heap's count, after the bulk delete had
   removed entries and retired a leaf *)
C37_Witness ==
    /\ pc = "idle"
    /\ hist.lastCleanup.valid /\ hist.lastCleanup.given
    /\ hist.lastCleanup.num_index_tuples < hist.lastCleanup.counted
    /\ stats.tuples_removed > 0
    /\ stats.pages_deleted # U32(0)

(* C38: a phase-1 visit of an internal page with invalid tuples emits one
   LOG message for each of them, records the page in internalPagesMap,
   changes no page, statistic, counter or LSN, and phase 1 goes on; a
   bulk-delete scan returns with no marked entry left, the live total equal
   to the entries on leaves and every leaf without entries retired, as on
   the same index without the marks. *)
C38_InvalidTupleOnlyLogged ==
    /\ [][(pc = "page" /\ VacuumStep /\ page[loc.cur].kind = "internal"
           /\ ~page[loc.cur].deleted)
            => /\ hist'.logged = hist.logged + Cardinality(InvalidTuples(page[loc.cur]))
               /\ MembersOf(vstate'.internalPagesMap)
                     = MembersOf(vstate.internalPagesMap) \cup {loc.cur}
               /\ vstate'.emptyLeafPagesMap = vstate.emptyLeafPagesMap
               /\ vstate'.emptyPages = vstate.emptyPages
               /\ page' = page /\ stats' = stats /\ fsm' = fsm /\ lsn' = lsn
               /\ hist'.walCount = hist.walCount
               /\ pc' \in {"page", "length"}
               /\ loc'.blkno = U32Inc(loc.blkno)]_vars
    /\ [][(VacuumStep /\ ~(pc = "page" /\ page[loc.cur].kind = "internal"
                           /\ ~page[loc.cur].deleted))
            => hist'.logged <= hist.logged]_vars
    /\ [][(pc = "finish" /\ pc' # "finish" /\ loc.caller = "bulkdelete")
            => /\ DeadEntries(page', numPages') = {}
               /\ stats'.num_index_tuples = Cardinality(LiveEntries(page', numPages'))
               /\ stats'.num_pages = numPages'
               /\ stats'.pages_deleted =
                     U32(Cardinality(hist.deleted) + Cardinality(hist.foundFree))
               /\ \A b \in LiveLeaves(page', numPages') : Len(page'[b].tuples) > 0]_vars

(* a bulk-delete scan of the index with invalid tuples has logged both of
   them, examined both marked pages in phase 2 and retired the leaf behind
   the marked downlink *)
C38_Witness ==
    /\ pc = "finish"
    /\ hist.logged = 2
    /\ B(3) \in hist.deleted /\ B(3) \in TreeInvalid.page[B(1)].invalid
    /\ page[B(1)].invalid = {}
    /\ B(2) \in page[B(0)].invalid /\ B(2) \in hist.examined
    /\ stats.tuples_removed = 2

(* C39: the root is never marked deleted: a scan that emptied a root leaf
   records block 0 in emptyLeafPagesMap and returns with the page still a
   live leaf; phase 2 examines only members of internalPagesMap, and a page
   it marks deleted is the target of a downlink of the recorded internal
   page it holds, never block 0. *)
C39_RootNeverRetired ==
    /\ [](~page[GIST_ROOT_BLKNO].deleted /\ GIST_ROOT_BLKNO \notin hist.deleted)
    /\ [][\A b \in hist'.examined \ hist.examined :
            /\ blockset_get(b, vstate.internalPagesMap)
            /\ ~blockset_get(b, vstate.emptyLeafPagesMap)]_vars
    /\ [][\A l \in Blocks :
            (page'[l].deleted /\ ~page[l].deleted)
              => /\ pc = "delete"
                 /\ l # GIST_ROOT_BLKNO
                 /\ blockset_get(loc.blkno, vstate.internalPagesMap)
                 /\ page[loc.blkno].kind = "internal"
                 /\ l \in Range(page[loc.blkno].downlinks)
                 /\ blockset_get(l, vstate.emptyLeafPagesMap)]_vars
    /\ []((pc = "finish" /\ blockset_get(GIST_ROOT_BLKNO, vstate.emptyLeafPagesMap))
            => /\ page[GIST_ROOT_BLKNO].kind = "leaf"
               /\ page[GIST_ROOT_BLKNO].tuples = <<>>
               /\ hist.deleted = {}
               /\ hist.examined = {}
               /\ EmptyPagesLeft(vstate))

(* a bulk delete emptied a root leaf, recorded it, entered phase 2 with the
   counter at one and finished with the root a live leaf *)
C39_Witness ==
    /\ pc = "finish"
    /\ blockset_get(GIST_ROOT_BLKNO, vstate.emptyLeafPagesMap)
    /\ vstate.emptyPages = U32(1)
    /\ stats.tuples_removed > 0
    /\ hist.visits[GIST_ROOT_BLKNO] = 1
    /\ ~page[GIST_ROOT_BLKNO].deleted

====
